---------------------------- MODULE Spec2Model ----------------------------
(***************************************************************************)
(* Model of the UP template engine (TemplateEngine in template.go) and of  *)
(* the parts of the parser (parser.go) its behaviour depends on.           *)
(*                                                                         *)
(* Go strings are modelled as sequences of one-character strings, so that  *)
(* strings.Index / Replace / ReplaceAll are computed as the code computes  *)
(* them.  Values are tagged records:                                       *)
(*   [t |-> "string", s |-> chars]      a Go string                        *)
(*   [t |-> "Block",  m |-> function]   up.Block  (map[string]Value)       *)
(*   [t |-> "List",   items |-> seq]    up.List   ([]Value)                *)
(*   [t |-> "[]any",  items |-> seq]    []any, what parseInlineList gives  *)
(***************************************************************************)
EXTENDS Integers, Sequences, FiniteSets, TLC

VARIABLES
  pc,         \* position of the operation under way
  options,    \* TemplateEngine.options
  vars,       \* TemplateEngine.vars
  visited,    \* TemplateEngine.visited
  base,       \* first argument of mergeValues / mergeDocuments
  overlay,    \* second argument of mergeValues / mergeDocuments
  merged,     \* their result
  iteration,  \* loop counter of resolveVariablesIteratively
  doc,        \* the Document an operation is given
  result,     \* the Document it returns
  files,      \* the files on disk: path -> what is written in the file
  stack,      \* the calls under way (processDocument, or the parser's), outermost first
  ret,        \* the error of the top-level call, "" while there is none
  patches,    \* applyPatches' patches, in the order the map range gave them
  shared,     \* the nodes of result whose value is still the object that
              \* the same node of doc holds
  overlayNodes, \* processDocument's overlayNodes
  calls,      \* top-level calls made on the engine so far
  lines,      \* the lines of the reader given to ParseDocument
  lineNum,    \* Scanner.lineNum
  parsedNodes, \* parseNodes' nodes
  err         \* the error ParseDocument returns

\* the parser's state
parserVars == <<lines, lineNum, parsedNodes, err>>

allVars == <<pc, options, vars, visited, base, overlay, merged,
             iteration, doc, result, files, stack, ret, patches, shared,
             overlayNodes, calls, parserVars>>

-----------------------------------------------------------------------------
(* Strings                                                                 *)

\* strings.HasPrefix(s[i:], sub), i counted from 1
MatchAt(s, sub, i) ==
  /\ i + Len(sub) - 1 <= Len(s)
  /\ \A j \in 1..Len(sub) : s[i + j - 1] = sub[j]

\* strings.Index(s, sub), 1-based; 0 when sub does not occur (Go: -1)
Index(s, sub) ==
  IF \E i \in 1..Len(s) : MatchAt(s, sub, i)
  THEN CHOOSE i \in 1..Len(s) :
         MatchAt(s, sub, i) /\ \A j \in 1..(i - 1) : ~MatchAt(s, sub, j)
  ELSE 0

\* strings.Contains(s, sub)
Contains(s, sub) == Index(s, sub) # 0

\* strings.Replace(s, old, new, 1)
ReplaceFirst(s, old, new) ==
  LET i == Index(s, old)
  IN IF i = 0 THEN s
     ELSE SubSeq(s, 1, i - 1) \o new \o SubSeq(s, i + Len(old), Len(s))

\* strings.ReplaceAll(s, old, new) for a non-empty old: non-overlapping
\* occurrences, left to right
RECURSIVE ReplaceAll(_, _, _)
ReplaceAll(s, old, new) ==
  LET i == Index(s, old)
  IN IF i = 0 THEN s
     ELSE SubSeq(s, 1, i - 1) \o new
          \o ReplaceAll(SubSeq(s, i + Len(old), Len(s)), old, new)

-----------------------------------------------------------------------------
(* Values                                                                  *)

Str(cs)      == [t |-> "string", s |-> cs]
Blk(m)       == [t |-> "Block", m |-> m]
Lst(items)   == [t |-> "List", items |-> items]
AnySl(items) == [t |-> "[]any", items |-> items]
Nil          == [t |-> "nil"]

IsString(v) == v.t = "string"
IsBlock(v)  == v.t = "Block"
IsList(v)   == v.t = "List"

\* the empty map
EmptyMap == [k \in {} |-> Nil]

\* map literal helpers
Put(m, k, v) == [j \in DOMAIN m \cup {k} |-> IF j = k THEN v ELSE m[j]]

-----------------------------------------------------------------------------
(* Merging (template.go, mergeValues / uniqueList / mergeDocuments)        *)

\* uniqueList, were it to drop every repeated item, strings or not
uniqueListAllKinds(list) ==
  LET RECURSIVE from(_, _)
      from(i, seen) ==
        IF i > Len(list) THEN <<>>
        ELSE IF list[i] \in seen THEN from(i + 1, seen)
             ELSE <<list[i]>> \o from(i + 1, seen \cup {list[i]})
  IN from(1, {})

\* uniqueList: keeps the first occurrence of every string item and every
\* item that is not a string
RECURSIVE uniqueFrom(_, _, _)
uniqueFrom(list, i, seen) ==
  IF i > Len(list) THEN <<>>
  ELSE LET item == list[i]
       IN IF IsString(item)
          THEN IF item.s \in seen
               THEN uniqueFrom(list, i + 1, seen)
               ELSE <<item>> \o uniqueFrom(list, i + 1, seen \cup {item.s})
          ELSE <<item>> \o uniqueFrom(list, i + 1, seen)

uniqueList(list) == uniqueFrom(list, 1, {})

\* the List branch of mergeValues
mergeLists(baseList, overlayList, o) ==
  CASE o.ListStrategy = "append"  -> Lst(baseList \o overlayList)
    [] o.ListStrategy = "unique"  -> Lst(uniqueList(baseList \o overlayList))
    [] o.ListStrategy = "replace" -> Lst(overlayList)
    [] OTHER                      -> Lst(overlayList)

\* mergeValues, were the deep merge to stop at the first level
mergeValuesOneLevel(b, ov, o) ==
  IF ov = Nil THEN b
  ELSE IF o.MergeStrategy = "shallow" \/ o.MergeStrategy = "replace" THEN ov
  ELSE IF IsBlock(b) /\ IsBlock(ov) /\ o.MergeStrategy = "deep"
  THEN Blk([k \in DOMAIN b.m \cup DOMAIN ov.m |->
              IF k \in DOMAIN ov.m THEN ov.m[k] ELSE b.m[k]])
  ELSE IF IsList(b) /\ IsList(ov)
  THEN mergeLists(b.items, ov.items, o)
  ELSE ov

RECURSIVE mergeValues(_, _, _)
mergeValues(b, ov, o) ==
  IF ov = Nil THEN b
  ELSE IF o.MergeStrategy = "shallow" \/ o.MergeStrategy = "replace" THEN ov
  ELSE IF IsBlock(b) /\ IsBlock(ov) /\ o.MergeStrategy = "deep"
  THEN Blk([k \in DOMAIN b.m \cup DOMAIN ov.m |->
              IF k \in DOMAIN ov.m
              THEN IF k \in DOMAIN b.m
                   THEN mergeValues(b.m[k], ov.m[k], o)
                   ELSE ov.m[k]
              ELSE b.m[k]])
  ELSE IF IsList(b) /\ IsList(ov)
  THEN mergeLists(b.items, ov.items, o)
  ELSE ov

\* A Document is [Nodes |-> sequence of Node]; a Node is
\* [Key |-> k, Type |-> t, Value |-> v]
Node(k, t, v) == [Key |-> k, Type |-> t, Value |-> v]
Doc(nodes)    == [Nodes |-> nodes]

KeysOf(nodes) == {nodes[i].Key : i \in 1..Len(nodes)}

\* baseMap[k]: the last node of the document with key k
LastWithKey(nodes, k) ==
  nodes[CHOOSE i \in 1..Len(nodes) :
          nodes[i].Key = k /\ \A j \in (i + 1)..Len(nodes) : nodes[j].Key # k]

\* the loop over overlay.Nodes; left is the set of keys still in baseMap
RECURSIVE mergeOverlayNodes(_, _, _, _, _)
mergeOverlayNodes(baseNodes, ovNodes, i, left, o) ==
  IF i > Len(ovNodes) THEN [nodes |-> <<>>, left |-> left]
  ELSE LET n == ovNodes[i]
       IN IF n.Key \in left
          THEN LET rest == mergeOverlayNodes(baseNodes, ovNodes, i + 1,
                                             left \ {n.Key}, o)
                   m == mergeValues(LastWithKey(baseNodes, n.Key).Value,
                                    n.Value, o)
               IN [nodes |-> <<Node(n.Key, n.Type, m)>> \o rest.nodes,
                   left |-> rest.left]
          ELSE LET rest == mergeOverlayNodes(baseNodes, ovNodes, i + 1, left, o)
               IN [nodes |-> <<n>> \o rest.nodes, left |-> rest.left]

\* the loop over base.Nodes that adds the nodes still in baseMap
remainingBaseNodes(baseNodes, left) ==
  SelectSeq(baseNodes, LAMBDA n : n.Key \in left)

mergeDocuments(b, ov, o) ==
  LET r == mergeOverlayNodes(b.Nodes, ov.Nodes, 1, KeysOf(b.Nodes), o)
  IN Doc(r.nodes \o remainingBaseNodes(b.Nodes, r.left))

-----------------------------------------------------------------------------
(* Variable resolution (template.go, extractVars / resolveValue /          *)
(* valuesEqual / resolveVariablesIteratively)                              *)

maxIterations == 100

\* most loop passes and nested calls of one resolveValue call that are
\* followed; a call that needs more is reported as Diverged
MaxSteps == 6

Lower  == {"a", "b", "c", "d", "e", "f", "g", "h", "i", "j", "k", "l", "m",
           "n", "o", "p", "q", "r", "s", "t", "u", "v", "w", "x", "y", "z"}
Upper  == {"A", "B", "C", "D", "E", "F", "G", "H", "I", "J", "K", "L", "M",
           "N", "O", "P", "Q", "R", "S", "T", "U", "V", "W", "X", "Y", "Z"}
Digits == {"0", "1", "2", "3", "4", "5", "6", "7", "8", "9"}

isVarChar(c) == c \in Lower \cup Upper \cup Digits \cup {"_"}

VarsPrefix == <<"$", "v", "a", "r", "s", ".">>
MarkOpen   == <<"<", "<", "<">>
MarkClose  == <<">", ">", ">">>

\* the value a call that does not return would have returned
Diverged == [t |-> "diverged"]

\* a block key as the characters of a Go string (keys of the vars block are
\* one character long)
Chars(k) == <<k>>

\* the keys of the model's blocks in the order fmt.Sprint prints a map
KeyOrder == <<"a", "b", "c", "x", "y">>

RECURSIVE JoinWith(_, _)
JoinWith(strs, sep) ==
  IF Len(strs) = 0 THEN <<>>
  ELSE IF Len(strs) = 1 THEN strs[1]
  ELSE strs[1] \o sep \o JoinWith(Tail(strs), sep)

\* fmt.Sprint of a value: a string as it is, a slice as [i1 i2], a map as
\* map[k1:v1 k2:v2] with the keys sorted
RECURSIVE Sprint(_)
Sprint(v) ==
  CASE v.t = "string" -> v.s
    [] v.t \in {"List", "[]any"} ->
         <<"[">> \o JoinWith([i \in 1..Len(v.items) |-> Sprint(v.items[i])],
                             <<" ">>) \o <<"]">>
    [] v.t = "Block" ->
         LET ks == SelectSeq(KeyOrder, LAMBDA k : k \in DOMAIN v.m)
         IN <<"m", "a", "p", "[">>
            \o JoinWith([i \in 1..Len(ks) |->
                           Chars(ks[i]) \o <<":">> \o Sprint(v.m[ks[i]])],
                        <<" ">>)
            \o <<"]">>
    [] OTHER -> <<"<", "n", "i", "l", ">">>

\* the index after the last character of the reference that starts at start
RECURSIVE refEnd(_, _)
refEnd(s, e) ==
  IF e <= Len(s) /\ (isVarChar(s[e]) \/ s[e] = ".") THEN refEnd(s, e + 1) ELSE e

\* the two ReplaceAll calls that end resolveValue's string case
restoreMarkers(s) ==
  ReplaceAll(ReplaceAll(s, MarkOpen \o VarsPrefix, VarsPrefix), MarkClose, <<>>)

\* resolveValue(value) with the engine's vars vs.  steps is what is left of
\* MaxSteps; resolveString is the `for strings.Contains(...)` loop.
RECURSIVE resolveValue(_, _, _)
RECURSIVE resolveString(_, _, _)
resolveString(res, vs, steps) ==
  IF ~Contains(res, VarsPrefix) THEN Str(restoreMarkers(res))
  ELSE IF steps = 0 THEN Diverged
  ELSE
    LET start   == Index(res, VarsPrefix)
        end     == refEnd(res, start + 6)
        fullRef == SubSeq(res, start, end - 1)
        varPath == SubSeq(fullRef, 7, Len(fullRef))
    IN IF varPath \in DOMAIN vs
       THEN IF res = fullRef
            THEN resolveValue(vs[varPath], vs, steps - 1)
            ELSE LET next == ReplaceFirst(res, fullRef, Sprint(vs[varPath]))
                 IN IF next = res THEN Str(restoreMarkers(res))
                    ELSE resolveString(next, vs, steps - 1)
       ELSE LET next == ReplaceFirst(res, fullRef,
                                     MarkOpen \o fullRef \o MarkClose)
            IN IF next = res THEN Str(restoreMarkers(res))
               ELSE resolveString(next, vs, steps - 1)

resolveValue(v, vs, steps) ==
  CASE v.t = "string" ->
         IF ~Contains(v.s, VarsPrefix) THEN v
         ELSE resolveString(v.s, vs, steps)
    [] v.t = "Block" ->
         LET r == [k \in DOMAIN v.m |-> resolveValue(v.m[k], vs, steps)]
         IN IF \E k \in DOMAIN r : r[k] = Diverged THEN Diverged ELSE Blk(r)
    [] v.t = "List" ->
         LET r == [i \in 1..Len(v.items) |-> resolveValue(v.items[i], vs, steps)]
         IN IF \E i \in 1..Len(r) : r[i] = Diverged THEN Diverged ELSE Lst(r)
    [] OTHER -> v

RECURSIVE valuesEqual(_, _)
valuesEqual(a, b) ==
  CASE a.t = "string" -> b.t = "string" /\ a.s = b.s
    [] a.t = "Block" ->
         /\ b.t = "Block"
         /\ Cardinality(DOMAIN a.m) = Cardinality(DOMAIN b.m)
         /\ \A k \in DOMAIN a.m :
              valuesEqual(a.m[k], IF k \in DOMAIN b.m THEN b.m[k] ELSE Nil)
    [] a.t = "List" ->
         /\ b.t = "List"
         /\ Len(a.items) = Len(b.items)
         /\ \A i \in 1..Len(a.items) : valuesEqual(a.items[i], b.items[i])
    [] OTHER -> FALSE

\* extractVars(block, prefix) as the entries it writes into e.vars
RECURSIVE extractVars(_, _)
extractVars(block, prefix) ==
  LET path(k) == IF prefix = <<>> THEN Chars(k)
                 ELSE prefix \o <<".">> \o Chars(k)
      nested(k) == IF IsBlock(block[k]) THEN extractVars(block[k].m, path(k))
                   ELSE [q \in {path(k)} |-> block[k]]
      paths == UNION {DOMAIN nested(k) : k \in DOMAIN block}
  IN [q \in paths |->
        LET k == CHOOSE k \in DOMAIN block : q \in DOMAIN nested(k)
        IN nested(k)[q]]

\* the harvest of processDocument: every top-level `vars` block of the
\* documents, into the vars the engine already holds
RECURSIVE harvestVars(_, _, _)
harvestVars(nodes, i, vs) ==
  IF i > Len(nodes) THEN vs
  ELSE LET n == nodes[i]
           add == IF n.Key = "vars" /\ IsBlock(n.Value)
                  THEN extractVars(n.Value.m, <<>>) ELSE EmptyMap
       IN harvestVars(nodes, i + 1,
                      [q \in DOMAIN vs \cup DOMAIN add |->
                         IF q \in DOMAIN add THEN add[q] ELSE vs[q]])

-----------------------------------------------------------------------------
(* Inputs of the merge specifications                                      *)

MaxListLen == 2     \* longest list merged
MaxKeys    == 2     \* most keys of a merged block
MaxNodes   == 2     \* most nodes of a merged document

S1 == Str(<<"1">>)
S2 == Str(<<"2">>)
S3 == Str(<<"3">>)
Scalars == {S1, S2, S3}

\* all sequences over S of length at most n
SeqsUpTo(S, n) == UNION {[1..k -> S] : k \in 0..n}

MergeStrategies == {"deep", "shallow", "replace"}
ListStrategies  == {"append", "unique", "replace"}
DefaultOptions  == [MergeStrategy |-> "deep", ListStrategy |-> "append",
                    BaseDir |-> "."]
AllOptions == [MergeStrategy : MergeStrategies, ListStrategy : ListStrategies,
               BaseDir : {"."}]

\* blocks nested in the merged blocks: at most one key, a scalar under it
InnerBlocks == {Blk(EmptyMap)}
               \cup {Blk([k \in {j} |-> v]) : j \in {"x", "y"}, v \in {S1, S2}}
BlockValues == {S1, S3} \cup InnerBlocks
TopKeys     == {"a", "b", "c"}
BlockInputs ==
  UNION {{Blk(m) : m \in [D -> BlockValues]} :
           D \in {D \in SUBSET TopKeys : Cardinality(D) <= MaxKeys}}

ListItems  == Scalars \cup {Blk([k \in {"x"} |-> S1])}
ListInputs == {Lst(l) : l \in SeqsUpTo(ListItems, MaxListLen)}

\* the blocks of the example: {a: 1, b: {x: 1}} and {b: {y: 2}, c: 3}
ExBase    == Blk([k \in {"a", "b"} |->
                   IF k = "a" THEN S1 ELSE Blk([j \in {"x"} |-> S1])])
ExOverlay == Blk([k \in {"b", "c"} |->
                   IF k = "c" THEN S3 ELSE Blk([j \in {"y"} |-> S2])])
ExDeep    == Blk([k \in {"a", "b", "c"} |->
                   CASE k = "a" -> S1
                     [] k = "c" -> S3
                     [] OTHER   -> Blk([j \in {"x", "y"} |->
                                          IF j = "x" THEN S1 ELSE S2])])

MergeValuePairs ==
  ((BlockInputs \cup {S1}) \X (BlockInputs \cup {S1}))
  \cup ((ListInputs \cup {S1, ExBase}) \X (ListInputs \cup {S1, ExBase}))

DocNodes  == {Node(k, t, v) : k \in TopKeys, t \in {""}, v \in {S1, S2}}
DocInputs == {Doc(n) : n \in SeqsUpTo(DocNodes, MaxNodes)}

NoValue == [t |-> "none"]

-----------------------------------------------------------------------------
(* Specification of one mergeValues call                                   *)

EngineIdle ==
  /\ vars = EmptyMap
  /\ visited = {}

NoDocument == [t |-> "none"]

ResolveIdle ==
  /\ iteration = 0
  /\ doc = NoDocument
  /\ result = NoDocument

LoadIdle ==
  /\ files = EmptyMap
  /\ stack = <<>>
  /\ ret = ""

PatchIdle ==
  /\ patches = <<>>
  /\ shared = {}

\* no error
NoError == [line |-> 0, msg |-> ""]

ParserIdle ==
  /\ lines = <<>>
  /\ lineNum = 0
  /\ parsedNodes = <<>>
  /\ err = NoError

OverlayIdle ==
  /\ overlayNodes = <<>>
  /\ calls = 0

InitMergeValues ==
  /\ pc = "start"
  /\ options \in AllOptions
  /\ \E p \in MergeValuePairs : base = p[1] /\ overlay = p[2]
  /\ merged = NoValue
  /\ EngineIdle
  /\ ResolveIdle
  /\ LoadIdle
  /\ PatchIdle
  /\ ParserIdle
  /\ OverlayIdle

MergeValues ==
  /\ pc = "start"
  /\ merged' = mergeValues(base, overlay, options)
  /\ pc' = "done"
  /\ UNCHANGED <<overlayNodes, calls, parserVars>>
  /\ UNCHANGED <<options, vars, visited, base, overlay, iteration, doc, result,
               files, stack, ret, patches, shared>>

NextMergeValues == MergeValues

SpecMergeValues == InitMergeValues /\ [][NextMergeValues]_allVars

(* Specification of one mergeDocuments call                                *)

InitMergeDocs ==
  /\ pc = "start"
  /\ options \in AllOptions
  /\ base \in DocInputs
  /\ overlay \in DocInputs
  /\ merged = NoValue
  /\ EngineIdle
  /\ ResolveIdle
  /\ LoadIdle
  /\ PatchIdle
  /\ ParserIdle
  /\ OverlayIdle

MergeDocuments ==
  /\ pc = "start"
  /\ merged' = mergeDocuments(base, overlay, options)
  /\ pc' = "done"
  /\ UNCHANGED <<overlayNodes, calls, parserVars>>
  /\ UNCHANGED <<options, vars, visited, base, overlay, iteration, doc, result,
               files, stack, ret, patches, shared>>

NextMergeDocs == MergeDocuments

SpecMergeDocs == InitMergeDocs /\ [][NextMergeDocs]_allVars

-----------------------------------------------------------------------------
(* Specification of processDocument on a document without template         *)
(* directives (ProcessTemplateFromReader): harvest, merge, resolve         *)

NumVars == 2      \* variables a document may define

VarNames == {<<"a", "b", "c", "d">>[i] : i \in 1..NumVars}

Ref(path) == VarsPrefix \o path
S5 == Str(<<"5">>)
S8 == Str(<<"8">>)
S9 == Str(<<"9">>)

\* what a variable may be declared as: a scalar (also the empty one), a
\* reference to a variable (also the undefined u), a reference inside a
\* longer string, a multiline list, an inline list, a nested block
VarValues ==
  {S5, Str(<<>>)}
  \cup {Str(Ref(Chars(n))) : n \in VarNames \cup {"u"}}
  \cup {Str(<<"x">> \o Ref(Chars(n))) : n \in VarNames}
  \cup {Lst(<<Str(Ref(Chars(n)))>>) : n \in VarNames}
  \cup {Lst(<<S8, S9>>), AnySl(<<S8, S9>>), Blk([k \in {"x"} |-> S5])}

VarBlocks == UNION {[D -> VarValues] : D \in SUBSET VarNames}

\* what the document's other node may hold
DocValues ==
  {S5}
  \cup {Str(Ref(Chars(n))) : n \in {"a", "u"}}
  \cup {Str(<<"x">> \o Ref(Chars(n)) \o <<"-">>) : n \in {"a", "u"}}
  \cup {Str(Ref(<<"a", ".", "x">>)),
        Str(<<"<", "<", "<", "x", ">", ">", ">">> \o Ref(<<"a">>)),
        Str(Ref(<<"a">>) \o Ref(<<"b">>)),
        Lst(<<Str(Ref(<<"a">>)), S5>>),
        AnySl(<<Str(Ref(<<"a">>)), S5>>),
        Blk([k \in {"x"} |-> Str(Ref(<<"a">>))])}

InitResolve ==
  /\ pc = "start"
  /\ options = DefaultOptions
  /\ EngineIdle
  /\ iteration = 0
  /\ \E vb \in VarBlocks, dv \in DocValues :
       doc = Doc(<<Node("vars", "", Blk(vb)), Node("k", "", dv)>>)
  /\ result = NoDocument
  /\ base = NoValue
  /\ overlay = NoValue
  /\ merged = NoValue
  /\ LoadIdle
  /\ PatchIdle
  /\ ParserIdle
  /\ OverlayIdle

\* processDocument up to the call of resolveVariablesIteratively: the
\* document has no directive, base or include, so allDocs is the document
\* alone and finalDoc is the empty document merged with it
ProcessDocument ==
  /\ pc = "start"
  /\ vars' = harvestVars(doc.Nodes, 1, vars)
  /\ merged' = IF Len(doc.Nodes) > 0
               THEN mergeDocuments(Doc(<<>>), doc, options)
               ELSE Doc(<<>>)
  /\ iteration' = 0
  /\ pc' = "resolveVars"
  /\ UNCHANGED <<overlayNodes, calls, parserVars>>
  /\ UNCHANGED <<options, visited, base, overlay, doc, result, files, stack, ret, patches, shared>>

\* one pass of the loop that resolves the vars map against itself
ResolveVarsPass ==
  /\ pc = "resolveVars"
  /\ LET newVars == [q \in DOMAIN vars |-> resolveValue(vars[q], vars, MaxSteps)]
         hasChanges == \E q \in DOMAIN vars : ~valuesEqual(vars[q], newVars[q])
     IN IF \E q \in DOMAIN vars : newVars[q] = Diverged
        THEN /\ pc' = "diverged"
             /\ UNCHANGED <<vars, iteration>>
        ELSE /\ vars' = newVars
             /\ IF ~hasChanges
                THEN pc' = "resolveDoc" /\ UNCHANGED iteration
                ELSE IF iteration = maxIterations - 1
                THEN pc' = "error" /\ UNCHANGED iteration
                ELSE pc' = "resolveVars" /\ iteration' = iteration + 1
  /\ UNCHANGED <<overlayNodes, calls, parserVars>>
  /\ UNCHANGED <<options, visited, base, overlay, merged, doc, result,
               files, stack, ret, patches, shared>>

\* the loop that resolves the nodes of the final document
ResolveDocument ==
  /\ pc = "resolveDoc"
  /\ LET nodes == [i \in 1..Len(merged.Nodes) |->
                     Node(merged.Nodes[i].Key, merged.Nodes[i].Type,
                          resolveValue(merged.Nodes[i].Value, vars, MaxSteps))]
     IN IF \E i \in 1..Len(nodes) : nodes[i].Value = Diverged
        THEN pc' = "diverged" /\ UNCHANGED result
        ELSE pc' = "done" /\ result' = Doc(nodes)
  /\ UNCHANGED <<overlayNodes, calls, parserVars>>
  /\ UNCHANGED <<options, vars, visited, base, overlay, merged, iteration, doc,
               files, stack, ret, patches, shared>>

NextResolve == ProcessDocument \/ ResolveVarsPass \/ ResolveDocument

SpecResolve == InitResolve /\ [][NextResolve]_allVars

-----------------------------------------------------------------------------
(* Specification of ProcessTemplate over files that name each other as     *)
(* base and include.  All files lie in one directory, so a file's name is  *)
(* its absolute path.                                                      *)

NumFiles    == 2      \* files on disk
MaxIncludes == 1      \* longest include list of a file
MaxCalls == 2     \* top-level calls made on the engine

FileNames == {<<<<"A">>, <<"B">>, <<"C">>, <<"D">>>>[i] : i \in 1..NumFiles}

\* a name no file has
Missing == <<"Z">>

\* what a file holds: an optional `!merge` node with a strategy, an optional
\* `!base` node, an `!include` node whose list is written inline ([a, b])
\* or one item a line, and (when own) two nodes of its own
FileContents ==
  [base : FileNames \cup {<<>>},
   includes : SeqsUpTo(FileNames \cup {Missing}, MaxIncludes),
   form : {"inline", "multiline"},
   own : {TRUE},
   merge : {<<>>}]

\* the directory all the files lie in
FilesDir == "/d"

\* parseValue on a list: `[` alone on the line goes to parseList, which
\* gives a List; `[a, b]` goes to parseInlineList, which gives a []any
parseListValue(form, items) ==
  IF form = "inline" THEN AnySl(items) ELSE Lst(items)

\* ParseDocument of the file named name: its own nodes are the scalar k,
\* the file's name, and the block s with one key, the file's name
ParseDocument(name, c) ==
  (IF c.merge # <<>>
   THEN <<Node("m", "merge", Blk([k \in {"strategy"} |-> Str(c.merge)]))>>
   ELSE <<>>)
  \o (IF c.base # <<>> THEN <<Node("parent", "base", Str(c.base))>> ELSE <<>>)
  \o (IF c.includes # <<>>
      THEN <<Node("files", "include",
                  parseListValue(c.form,
                                 [i \in 1..Len(c.includes) |-> Str(c.includes[i])]))>>
      ELSE <<>>)
  \o (IF c.own
      THEN <<Node("k", "", Str(name)),
             Node("s", "", Blk([x \in {name[1]} |-> S5]))>>
      ELSE <<>>)

\* the locals of one processDocument call on the document of `file`, and
\* the oldBaseDir of the ProcessTemplate or loadDocumentRaw that made it
Frame(file, nodes, oldBaseDir) ==
  [file |-> file, nodes |-> nodes, ni |-> 1, own |-> <<>>,
   baseDoc |-> NoDocument, includeFiles |-> <<>>, ii |-> 1, allDocs |-> <<>>,
   oldBaseDir |-> oldBaseDir]

\* the `merge` case, were the directive to leave the engine's options alone
mergeDirectiveIgnored(o, v) == o

\* the `merge` case of processDocument: the strategies the block names, as
\* strings, are written into the options (a strategy is one token)
mergeDirective(o, v) ==
  LET named(k) == IsBlock(v) /\ k \in DOMAIN v.m /\ IsString(v.m[k])
      word(k)  == IF v.m[k].s = <<>> THEN "" ELSE v.m[k].s[1]
  IN [o EXCEPT !.MergeStrategy = IF named("strategy") THEN word("strategy") ELSE @,
               !.ListStrategy  = IF named("list_strategy")
                                 THEN word("list_strategy") ELSE @]

Top == stack[Len(stack)]

\* one pass of resolveVariablesIteratively's first loop
resolvePass(vs) == [q \in DOMAIN vs |-> resolveValue(vs[q], vs, MaxSteps)]

\* that loop from pass `it` on: the vars it leaves and how it ends
RECURSIVE resolveVarsLoop(_, _)
resolveVarsLoop(vs, it) ==
  LET newVars == resolvePass(vs)
  IN IF \E q \in DOMAIN vs : newVars[q] = Diverged
     THEN [vars |-> vs, end |-> "diverged"]
     ELSE IF \A q \in DOMAIN vs : valuesEqual(vs[q], newVars[q])
     THEN [vars |-> newVars, end |-> "resolved"]
     ELSE IF it = maxIterations - 1
     THEN [vars |-> newVars, end |-> "circular"]
     ELSE resolveVarsLoop(newVars, it + 1)

\* the string items of an include list
RECURSIVE stringItems(_)
stringItems(items) ==
  IF items = <<>> THEN <<>>
  ELSE (IF IsString(items[1]) THEN <<items[1].s>> ELSE <<>>)
       \o stringItems(Tail(items))

\* the vars after the harvest over allDocs
RECURSIVE harvestDocs(_, _)
harvestDocs(docs, vs) ==
  IF docs = <<>> THEN vs
  ELSE harvestDocs(Tail(docs), harvestVars(docs[1].Nodes, 1, vs))

RECURSIVE mergeAll(_, _, _)
mergeAll(final, docs, o) ==
  IF docs = <<>> THEN final
  ELSE mergeAll(mergeDocuments(final, docs[1], o), Tail(docs), o)

\* the merge, were the document's own nodes merged first and the included
\* documents and the base after them
buildFinalOwnFirst(fr, o) ==
  LET nAll  == Len(fr.allDocs)
      incs  == SubSeq(fr.allDocs, nAll - Len(fr.includeFiles) + 1, nAll)
      withIncludes == mergeAll(Doc(fr.own), incs, o)
  IN IF fr.baseDoc # NoDocument
     THEN mergeDocuments(withIncludes, fr.baseDoc, o)
     ELSE withIncludes

\* steps 1 to 3 of processDocument's merge: the base, the included
\* documents in order, the document's own nodes
buildFinal(fr, o) ==
  LET start == IF fr.baseDoc # NoDocument THEN fr.baseDoc ELSE Doc(<<>>)
      nAll  == Len(fr.allDocs)
      incs  == SubSeq(fr.allDocs, nAll - Len(fr.includeFiles) + 1, nAll)
      withIncludes == mergeAll(start, incs, o)
  IN IF Len(fr.own) > 0
     THEN mergeDocuments(withIncludes, Doc(fr.own), o)
     ELSE withIncludes

InitLoad ==
  /\ pc = "idle"
  /\ options = DefaultOptions
  /\ EngineIdle
  /\ ResolveIdle
  /\ files \in [FileNames -> FileContents]
  /\ stack = <<>>
  /\ ret = ""
  /\ base = NoValue
  /\ overlay = NoValue
  /\ merged = NoValue
  /\ PatchIdle
  /\ ParserIdle
  /\ OverlayIdle

\* the visited check, the open and the parse that ProcessTemplate and
\* loadDocumentRaw share, called from the calls in `callers`
Load(f, callers) ==
  IF f \in visited
  THEN /\ pc' = "failing"
       /\ ret' = "circular dependency"
       /\ stack' = callers
       /\ UNCHANGED <<visited, options>>
  ELSE IF f \notin DOMAIN files
  THEN /\ pc' = "failing"
       /\ ret' = "failed to open file"
       /\ stack' = callers
       /\ UNCHANGED <<visited, options>>
  ELSE /\ pc' = "running"
       /\ visited' = visited \cup {f}
       /\ stack' = Append(callers,
                          Frame(f, ParseDocument(f, files[f]), options.BaseDir))
       /\ options' = [options EXCEPT !.BaseDir = FilesDir]
       /\ ret' = ""

\* a top-level call: the first on the engine, or one made after an earlier
\* call has returned
ProcessTemplate(f) ==
  /\ pc = "idle" \/ (pc \in {"done", "error"} /\ calls < MaxCalls)
  /\ calls' = calls + 1
  /\ doc' = f
  /\ Load(f, <<>>)
  /\ UNCHANGED <<overlayNodes, parserVars>>
  /\ UNCHANGED <<vars, base, overlay, merged, iteration, result, files,
                 patches, shared>>

\* one turn of the loop over doc.Nodes that sorts out the directives
ExtractNode ==
  /\ pc = "running"
  /\ Top.ni <= Len(Top.nodes)
  /\ LET n == Top.nodes[Top.ni]
         advance(fr) == [stack EXCEPT ![Len(stack)] = [fr EXCEPT !.ni = @ + 1]]
     IN CASE n.Type = "base" ->
               IF IsString(n.Value)
               THEN Load(n.Value.s, stack)
               ELSE /\ stack' = advance(Top)
                    /\ UNCHANGED <<pc, visited, ret, options>>
          [] n.Type = "include" ->
               /\ stack' = advance(
                    IF IsList(n.Value)
                    THEN [Top EXCEPT !.includeFiles = @ \o stringItems(n.Value.items)]
                    ELSE Top)
               /\ UNCHANGED <<pc, visited, ret, options>>
          [] n.Type = "merge" ->
               /\ options' = mergeDirective(options, n.Value)
               /\ stack' = advance(Top)
               /\ UNCHANGED <<pc, visited, ret>>
          [] OTHER ->
               /\ stack' = advance([Top EXCEPT !.own = Append(@, n)])
               /\ UNCHANGED <<pc, visited, ret, options>>
  /\ UNCHANGED <<overlayNodes, calls, parserVars>>
  /\ UNCHANGED <<vars, base, overlay, merged, iteration, doc, result,
                 files, patches, shared>>

\* one turn of the loop over includeFiles
LoadInclude ==
  /\ pc = "running"
  /\ Top.ni > Len(Top.nodes)
  /\ Top.ii <= Len(Top.includeFiles)
  /\ Load(Top.includeFiles[Top.ii], stack)
  /\ UNCHANGED <<overlayNodes, calls, parserVars>>
  /\ UNCHANGED <<vars, base, overlay, merged, iteration, doc, result,
                 files, patches, shared>>

\* the deferred delete, were it missing
unmarkNever(vis, f) == vis

\* what the deferred delete of a returning load leaves of visited
unmark(vis, f) == vis \ {f}

\* the rest of processDocument: harvest, merge, resolve; then the return
\* through loadDocumentRaw or ProcessTemplate, whose deferred calls take
\* the path out of visited and put the old base directory back
Finish ==
  /\ pc = "running"
  /\ Top.ni > Len(Top.nodes)
  /\ Top.ii > Len(Top.includeFiles)
  /\ LET fr       == Top
         harvest  == harvestDocs(Append(fr.allDocs, Doc(fr.own)), vars)
         final    == buildFinal(fr, options)
         loop     == resolveVarsLoop(harvest, 0)
         nodes    == [i \in 1..Len(final.Nodes) |->
                        Node(final.Nodes[i].Key, final.Nodes[i].Type,
                             resolveValue(final.Nodes[i].Value, loop.vars, MaxSteps))]
         callers  == SubSeq(stack, 1, Len(stack) - 1)
     IN IF loop.end = "diverged" \/ \E i \in 1..Len(nodes) : nodes[i].Value = Diverged
        THEN /\ pc' = "diverged"
             /\ UNCHANGED <<vars, visited, stack, ret, result, options>>
        ELSE IF loop.end = "circular"
        THEN /\ pc' = "failing"
             /\ ret' = "circular dependency: variables"
             /\ vars' = loop.vars
             /\ visited' = unmark(visited, fr.file)
             /\ options' = [options EXCEPT !.BaseDir = fr.oldBaseDir]
             /\ stack' = callers
             /\ UNCHANGED result
        ELSE /\ vars' = loop.vars
             /\ visited' = unmark(visited, fr.file)
             /\ options' = [options EXCEPT !.BaseDir = fr.oldBaseDir]
             /\ UNCHANGED ret
             /\ IF callers = <<>>
                THEN /\ pc' = "done"
                     /\ result' = Doc(nodes)
                     /\ stack' = callers
                ELSE LET up == callers[Len(callers)]
                         got == IF up.ni <= Len(up.nodes)
                                THEN [up EXCEPT !.baseDoc = Doc(nodes),
                                                !.allDocs = Append(@, Doc(nodes)),
                                                !.ni = @ + 1]
                                ELSE [up EXCEPT !.allDocs = Append(@, Doc(nodes)),
                                                !.ii = @ + 1]
                     IN /\ pc' = "running"
                        /\ stack' = [callers EXCEPT ![Len(callers)] = got]
                        /\ UNCHANGED result
  /\ UNCHANGED <<overlayNodes, calls, parserVars>>
  /\ UNCHANGED <<base, overlay, merged, iteration, doc, files,
                 patches, shared>>

\* an error on its way up: each call under way returns it, and its
\* deferred calls take its path out of visited and put the old base
\* directory back
Unwind ==
  /\ pc = "failing"
  /\ IF stack = <<>>
     THEN pc' = "error" /\ UNCHANGED <<stack, visited, options>>
     ELSE /\ stack' = SubSeq(stack, 1, Len(stack) - 1)
          /\ visited' = unmark(visited, Top.file)
          /\ options' = [options EXCEPT !.BaseDir = Top.oldBaseDir]
          /\ UNCHANGED pc
  /\ UNCHANGED <<overlayNodes, calls, parserVars>>
  /\ UNCHANGED <<vars, base, overlay, merged, iteration, doc, result,
                 files, ret, patches, shared>>

NextLoad ==
  \/ \E f \in FileNames : ProcessTemplate(f)
  \/ ExtractNode
  \/ LoadInclude
  \/ Finish
  \/ Unwind

SpecLoad == InitLoad /\ [][NextLoad]_allVars

-----------------------------------------------------------------------------
(* Specification of ProcessTemplate over three files that name each other  *)
(* without a cycle: P may have Q or R as base and include them, Q may have *)
(* R as base; a file may lack nodes of its own and Q may set the merge     *)
(* strategy.  The include lists are written one item a line.               *)

MaxIncluded == 2      \* longest include list of P

FileP == <<"P">>
FileQ == <<"Q">>
FileR == <<"R">>
TreeFiles == {FileP, FileQ, FileR}

TreeContents(f) ==
  CASE f = FileP ->
         [base : {<<>>, FileQ, FileR},
          includes : SeqsUpTo({FileQ, FileR}, MaxIncluded) \cup {<<Missing>>},
          form : {"multiline"}, own : BOOLEAN, merge : {<<>>}]
    [] f = FileQ ->
         [base : {<<>>, FileR}, includes : {<<>>}, form : {"multiline"},
          own : BOOLEAN, merge : {<<>>, <<"replace">>}]
    [] f = FileR ->
         [base : {<<>>}, includes : {<<>>}, form : {"multiline"},
          own : BOOLEAN, merge : {<<>>}]

InitInclude ==
  /\ pc = "idle"
  /\ options = DefaultOptions
  /\ EngineIdle
  /\ ResolveIdle
  /\ files \in {fs \in [TreeFiles -> UNION {TreeContents(f) : f \in TreeFiles}] :
                  \A f \in TreeFiles : fs[f] \in TreeContents(f)}
  /\ stack = <<>>
  /\ ret = ""
  /\ base = NoValue
  /\ overlay = NoValue
  /\ merged = NoValue
  /\ PatchIdle
  /\ ParserIdle
  /\ OverlayIdle

NextInclude ==
  \/ \E f \in TreeFiles : ProcessTemplate(f)
  \/ ExtractNode
  \/ LoadInclude
  \/ Finish
  \/ Unwind

SpecInclude == InitInclude /\ [][NextInclude]_allVars

-----------------------------------------------------------------------------
(* Patches (template.go, applyPatches / applyPatchPath / applyPatchToBlock) *)
(* A patch key is a string of tokens: a name without punctuation is one    *)
(* token, and ".", "[", "]", "*" are tokens of their own.                  *)

\* strings.Split(s, ".")
RECURSIVE SplitDots(_)
SplitDots(s) ==
  LET i == Index(s, <<".">>)
  IN IF i = 0 THEN <<s>>
     ELSE <<SubSeq(s, 1, i - 1)>> \o SplitDots(SubSeq(s, i + 1, Len(s)))

\* strings.TrimSuffix(s, suf)
TrimSuffix(s, suf) ==
  IF Len(s) >= Len(suf) /\ SubSeq(s, Len(s) - Len(suf) + 1, Len(s)) = suf
  THEN SubSeq(s, 1, Len(s) - Len(suf))
  ELSE s

\* the map key a path segment without punctuation spells
KeyOf(seg) == IF seg = <<>> THEN "" ELSE seg[1]

\* applyPatchToBlock: the block as its in-place writes leave it
RECURSIVE applyPatchToBlock(_, _, _)
applyPatchToBlock(block, path, value) ==
  IF Len(path) = 0 THEN block
  ELSE
    LET key == path[1]
    IN IF Contains(key, <<"[">>)
       THEN LET cut      == Index(key, <<"[">>)
                baseKey  == KeyOf(SubSeq(key, 1, cut - 1))
                selector == TrimSuffix(SubSeq(key, cut + 1, Len(key)), <<"]">>)
            IN IF baseKey \in DOMAIN block /\ IsList(block[baseKey])
                  /\ selector = <<"*">>
               THEN [block EXCEPT ![baseKey] =
                       Lst([i \in 1..Len(@.items) |->
                              IF Len(path) = 1 THEN value
                              ELSE IF IsBlock(@.items[i])
                              THEN Blk(applyPatchToBlock(@.items[i].m,
                                                         Tail(path), value))
                              ELSE @.items[i]])]
               ELSE block
       ELSE IF Len(path) = 1
       THEN Put(block, KeyOf(key), value)
       ELSE IF KeyOf(key) \in DOMAIN block /\ IsBlock(block[KeyOf(key)])
       THEN [block EXCEPT ![KeyOf(key)] =
               Blk(applyPatchToBlock(@.m, Tail(path), value))]
       ELSE block

\* applyPatchPath's loop: the first node whose key is path[0], 0 when none
patchTarget(nodes, path) ==
  IF Len(path) > 0 /\ \E i \in 1..Len(nodes) : Chars(nodes[i].Key) = path[1]
  THEN CHOOSE i \in 1..Len(nodes) :
         /\ Chars(nodes[i].Key) = path[1]
         /\ \A j \in 1..(i - 1) : Chars(nodes[j].Key) # path[1]
  ELSE 0

-----------------------------------------------------------------------------
(* Specification of one applyPatches call                                  *)

MaxPathLen == 3     \* most segments of a patch path

Sh == Str(<<"h">>)
Sn == Str(<<"n">>)
P9 == Str(<<"9">>)

ServerList == Lst(<<Blk([k \in {"cpu"} |-> S1]), Sn,
                    Blk([k \in {"cpu", "host"} |-> IF k = "cpu" THEN S2 ELSE Sh])>>)

\* the nodes a patched document is made of: a block with a nested block, a
\* top-level list, a block holding a list
PatchNodes ==
  <<Node("server", "", Blk([k \in {"host", "tls"} |->
                              IF k = "host" THEN Sh
                              ELSE Blk([j \in {"on"} |-> S1])])),
    Node("servers", "", ServerList),
    Node("app", "", Blk([k \in {"name", "servers"} |->
                           IF k = "name" THEN Sn ELSE ServerList]))>>

PatchDocs ==
  {Doc(SelectSeq(PatchNodes, LAMBDA n : n.Key \in K)) :
     K \in SUBSET {"server", "servers", "app"}}

Segments ==
  {<<"server">>, <<"servers">>, <<"app">>, <<"host">>, <<"cpu">>, <<"tls">>,
   <<"zz">>, <<"servers", "[", "*", "]">>}

\* the patch keys: segments joined by "."
PatchKeys ==
  {JoinWith(p, <<".">>) : p \in (SeqsUpTo(Segments, MaxPathLen) \ {<<>>})}

InitPatch ==
  /\ pc = "start"
  /\ options = DefaultOptions
  /\ EngineIdle
  /\ LoadIdle
  /\ iteration = 0
  /\ doc \in PatchDocs
  /\ result = NoDocument
  /\ \E k \in PatchKeys : patches = <<Node(k, "", P9)>>
  /\ shared = {}
  /\ base = NoValue
  /\ overlay = NoValue
  /\ merged = NoValue
  /\ ParserIdle
  /\ OverlayIdle

\* applyPatches' copy of the node slice: the nodes are copied, the values
\* they hold are the same objects
CopyNodes ==
  /\ pc = "start"
  /\ result' = doc
  /\ shared' = 1..Len(doc.Nodes)
  /\ iteration' = 1
  /\ pc' = "patching"
  /\ UNCHANGED <<overlayNodes, calls, parserVars>>
  /\ UNCHANGED <<options, vars, visited, base, overlay, merged, doc, files,
                 stack, ret, patches>>

\* one turn of applyPatches' loop: applyPatchPath for one patch
ApplyPatch ==
  /\ pc = "patching"
  /\ iteration <= Len(patches)
  /\ LET path  == SplitDots(patches[iteration].Key)
         value == patches[iteration].Value
         i     == patchTarget(result.Nodes, path)
     IN IF i = 0
        THEN UNCHANGED <<result, doc, shared>>
        ELSE IF Len(path) = 1
        THEN /\ result' = [result EXCEPT !.Nodes[i].Value = value]
             /\ shared' = shared \ {i}
             /\ UNCHANGED doc
        ELSE IF IsBlock(result.Nodes[i].Value)
        THEN LET new == Blk(applyPatchToBlock(result.Nodes[i].Value.m,
                                              Tail(path), value))
             IN /\ result' = [result EXCEPT !.Nodes[i].Value = new]
                /\ doc' = IF i \in shared
                          THEN [doc EXCEPT !.Nodes[i].Value = new]
                          ELSE doc
                /\ UNCHANGED shared
        ELSE UNCHANGED <<result, doc, shared>>
  /\ iteration' = iteration + 1
  /\ UNCHANGED <<overlayNodes, calls, parserVars>>
  /\ UNCHANGED <<pc, options, vars, visited, base, overlay, merged, files,
                 stack, ret, patches>>

ReturnPatched ==
  /\ pc = "patching"
  /\ iteration > Len(patches)
  /\ pc' = "done"
  /\ UNCHANGED <<overlayNodes, calls, parserVars>>
  /\ UNCHANGED <<options, vars, visited, base, overlay, merged, iteration, doc,
                 result, files, stack, ret, patches, shared>>

NextPatch == CopyNodes \/ ApplyPatch \/ ReturnPatched

SpecPatch == InitPatch /\ [][NextPatch]_allVars

-----------------------------------------------------------------------------
(* Specification of processDocument on a document with `!overlay` nodes    *)
(* and neither base nor includes                                           *)

MaxOwnNodes == 4     \* most nodes of the document

Bx3 == Blk([k \in {"x"} |-> S3])

\* the nodes the document is made of: plain nodes, overlay nodes holding a
\* block, an overlay node holding a scalar
OverlayDocNodes ==
  {Node(k, "", v) : k \in {"a", "b"}, v \in {S1, ExBase}}
  \cup {Node("a", "overlay", ExOverlay), Node("c", "overlay", Bx3),
        Node("a", "overlay", S1)}

OverlayDocs == {Doc(n) : n \in SeqsUpTo(OverlayDocNodes, MaxOwnNodes)}

\* the overlay case of the switch over doc.Nodes
collectOverlays(docNodes) ==
  LET kept == SelectSeq(docNodes, LAMBDA n : n.Type = "overlay" /\ IsBlock(n.Value))
  IN [i \in 1..Len(kept) |-> Node(kept[i].Key, kept[i].Type, kept[i].Value)]

\* the default case of that switch
ownNodes(docNodes) ==
  SelectSeq(docNodes,
            LAMBDA n : n.Type \notin {"base", "overlay", "include", "patch", "merge"})

\* one overlay, were it always added as a new node
applyOverlayAppending(finalNodes, overlayNode, o) ==
  Append(finalNodes, Node(overlayNode.Key, "", overlayNode.Value))

\* one turn of the loop over overlayNodes: the nodes of finalDoc after it
applyOverlay(finalNodes, overlayNode, o) ==
  IF \E i \in 1..Len(finalNodes) : finalNodes[i].Key = overlayNode.Key
  THEN LET i == CHOOSE i \in 1..Len(finalNodes) :
                  /\ finalNodes[i].Key = overlayNode.Key
                  /\ \A j \in 1..(i - 1) : finalNodes[j].Key # overlayNode.Key
       IN [finalNodes EXCEPT ![i].Value =
             mergeValues(finalNodes[i].Value, overlayNode.Value, o)]
  ELSE Append(finalNodes, Node(overlayNode.Key, "", overlayNode.Value))

InitOverlay ==
  /\ pc = "start"
  /\ options \in {o \in AllOptions : o.ListStrategy = "append"}
  /\ EngineIdle
  /\ LoadIdle
  /\ PatchIdle
  /\ ParserIdle
  /\ iteration = 0
  /\ doc \in OverlayDocs
  /\ result = NoDocument
  /\ overlayNodes = <<>>
  /\ calls = 0
  /\ base = NoValue
  /\ overlay = NoValue
  /\ merged = NoValue

\* processDocument up to the overlays: the switch over doc.Nodes and the
\* merge of the document's own nodes into the empty final document
CollectOverlays ==
  /\ pc = "start"
  /\ overlayNodes' = collectOverlays(doc.Nodes)
  /\ merged' = IF Len(ownNodes(doc.Nodes)) > 0
               THEN mergeDocuments(Doc(<<>>), Doc(ownNodes(doc.Nodes)), options)
               ELSE Doc(<<>>)
  /\ iteration' = 1
  /\ pc' = "overlaying"
  /\ UNCHANGED <<options, vars, visited, base, overlay, doc, result, files,
                 stack, ret, patches, shared, calls, parserVars>>

\* one turn of the loop over overlayNodes
ApplyOverlay ==
  /\ pc = "overlaying"
  /\ iteration <= Len(overlayNodes)
  /\ merged' = Doc(applyOverlay(merged.Nodes, overlayNodes[iteration], options))
  /\ iteration' = iteration + 1
  /\ UNCHANGED <<pc, options, vars, visited, base, overlay, doc, result, files,
                 stack, ret, patches, shared, overlayNodes, calls, parserVars>>

\* no patch and no variable: the final document is returned as it is
OverlaysDone ==
  /\ pc = "overlaying"
  /\ iteration > Len(overlayNodes)
  /\ result' = merged
  /\ pc' = "done"
  /\ UNCHANGED <<options, vars, visited, base, overlay, merged, iteration, doc,
                 files, stack, ret, patches, shared, overlayNodes, calls,
                 parserVars>>

NextOverlay == CollectOverlays \/ ApplyOverlay \/ OverlaysDone

SpecOverlay == InitOverlay /\ [][NextOverlay]_allVars

-----------------------------------------------------------------------------
(* Specification of successive ProcessTemplateFromReader calls on one      *)
(* engine                                                                  *)


\* the documents read: an optional vars block and one other node
ReuseDocs ==
  {Doc(vn \o <<Node("k", "", v)>>) :
     vn \in {<<>>}
            \cup {<<Node("vars", "", Blk([n \in {name} |-> val]))>> :
                    name \in {"a", "b"}, val \in {S5, S8}},
     v \in {S5, Str(Ref(<<"a">>)), Str(<<"x">> \o Ref(<<"b">>))}}

\* processDocument on a document without directives, the engine's vars
\* being vs: harvest into the engine's vars, merge into the empty final
\* document, resolve
processPlain(d, vs, o) ==
  LET harvest == harvestVars(d.Nodes, 1, vs)
      final   == IF Len(d.Nodes) > 0 THEN mergeDocuments(Doc(<<>>), d, o)
                 ELSE Doc(<<>>)
      loop    == resolveVarsLoop(harvest, 0)
      rnodes  == [i \in 1..Len(final.Nodes) |->
                    Node(final.Nodes[i].Key, final.Nodes[i].Type,
                         resolveValue(final.Nodes[i].Value, loop.vars, MaxSteps))]
  IN IF loop.end = "diverged" \/ \E i \in 1..Len(rnodes) : rnodes[i].Value = Diverged
     THEN [vars |-> loop.vars, result |-> NoDocument, end |-> "diverged"]
     ELSE IF loop.end = "circular"
     THEN [vars |-> loop.vars, result |-> NoDocument,
           end |-> "circular dependency: variables"]
     ELSE [vars |-> loop.vars, result |-> Doc(rnodes), end |-> ""]

InitReuse ==
  /\ pc = "start"
  /\ options = DefaultOptions
  /\ EngineIdle
  /\ iteration = 0
  /\ doc \in ReuseDocs
  /\ result = NoDocument
  /\ LoadIdle
  /\ PatchIdle
  /\ ParserIdle
  /\ overlayNodes = <<>>
  /\ calls = 1
  /\ base = NoValue
  /\ overlay = NoValue
  /\ merged = NoValue

\* the next ProcessTemplateFromReader call on the engine, after the last
\* one returned: a new document is parsed and handed to processDocument;
\* nothing on the way touches the engine's vars
ProcessTemplateFromReader(d) ==
  /\ pc \in {"done", "error"}
  /\ calls < MaxCalls
  /\ calls' = calls + 1
  /\ doc' = d
  /\ result' = NoDocument
  /\ merged' = NoValue
  /\ iteration' = 0
  /\ pc' = "start"
  /\ UNCHANGED <<options, vars, visited, base, overlay, files, stack, ret,
                 patches, shared, overlayNodes, parserVars>>

NextReuse ==
  \/ ProcessDocument
  \/ ResolveVarsPass
  \/ ResolveDocument
  \/ \E d \in ReuseDocs : ProcessTemplateFromReader(d)

SpecReuse == InitReuse /\ [][NextReuse]_allVars

-----------------------------------------------------------------------------
(* The parser (parser.go): strings                                         *)

\* the white space of the model's lines
IsSpace(c) == c \in {" ", "\t"}

\* strings.TrimSpace(s)
TrimSpace(s) ==
  IF \A i \in 1..Len(s) : IsSpace(s[i]) THEN <<>>
  ELSE LET first == CHOOSE i \in 1..Len(s) :
                      ~IsSpace(s[i]) /\ \A j \in 1..(i - 1) : IsSpace(s[j])
           last  == CHOOSE i \in 1..Len(s) :
                      ~IsSpace(s[i]) /\ \A j \in (i + 1)..Len(s) : IsSpace(s[j])
       IN SubSeq(s, first, last)

\* strings.HasPrefix(s, p), strings.HasSuffix(s, p)
HasPrefix(s, p) == MatchAt(s, p, 1)
HasSuffix(s, p) ==
  Len(s) >= Len(p) /\ SubSeq(s, Len(s) - Len(p) + 1, Len(s)) = p

\* strings.TrimPrefix(s, p)
TrimPrefix(s, p) ==
  IF HasPrefix(s, p) THEN SubSeq(s, Len(p) + 1, Len(s)) ELSE s

\* strings.IndexAny(s, chars), 1-based; 0 when none occurs (Go: -1)
IndexAny(s, chars) ==
  IF \E i \in 1..Len(s) : s[i] \in chars
  THEN CHOOSE i \in 1..Len(s) :
         s[i] \in chars /\ \A j \in 1..(i - 1) : s[j] \notin chars
  ELSE 0

\* strings.Split(s, sep) for a non-empty sep
RECURSIVE Split(_, _)
Split(s, sep) ==
  LET i == Index(s, sep)
  IN IF i = 0 THEN <<s>>
     ELSE <<SubSeq(s, 1, i - 1)>> \o Split(SubSeq(s, i + Len(sep), Len(s)), sep)

Quote == <<"\"">>
\* the fence of a multiline text; the backquote is written ^ here
Fence == <<"^", "^", "^">>
NL    == <<"\n">>

-----------------------------------------------------------------------------
(* The parser: one line                                                    *)

stripSurroundingQuotes(s) ==
  IF Len(s) >= 2 /\ HasPrefix(s, Quote) /\ HasSuffix(s, Quote)
  THEN SubSeq(s, 2, Len(s) - 1)
  ELSE s

\* splitKeyValue, were a colon anywhere in the key token to do
splitKeyValueAnyColon(line0) ==
  LET line    == TrimSpace(line0)
      at      == IndexAny(line, {" ", "\t"})
      keyEnd  == IF at = 0 THEN Len(line) ELSE at - 1
      keyPart == SubSeq(line, 1, keyEnd)
      rest    == TrimSpace(SubSeq(line, keyEnd + 1, Len(line)))
  IN IF Contains(keyPart, <<":">>)
     THEN [key |-> TrimSuffix(keyPart, <<":">>),
           val |-> stripSurroundingQuotes(rest), lineOriented |-> TRUE]
     ELSE [key |-> keyPart, val |-> stripSurroundingQuotes(rest),
           lineOriented |-> FALSE]

\* splitKeyValue(line): keyPart, valPart and the line-oriented flag
splitKeyValue(line0) ==
  LET line    == TrimSpace(line0)
      at      == IndexAny(line, {" ", "\t"})
      keyEnd  == IF at = 0 THEN Len(line) ELSE at - 1
      keyPart == SubSeq(line, 1, keyEnd)
      rest    == TrimSpace(SubSeq(line, keyEnd + 1, Len(line)))
  IN IF HasSuffix(keyPart, <<":">>) /\ ~Contains(keyPart, <<":", "/", "/">>)
     THEN LET commentIdx == Index(rest, <<"#">>)
              value == IF commentIdx > 0
                       THEN TrimSpace(SubSeq(rest, 1, commentIdx - 1))
                       ELSE rest
          IN [key |-> TrimSuffix(keyPart, <<":">>),
              val |-> IF keyEnd < Len(line)
                      THEN stripSurroundingQuotes(value) ELSE <<>>,
              lineOriented |-> TRUE]
     ELSE [key |-> keyPart,
           val |-> IF keyEnd < Len(line)
                   THEN stripSurroundingQuotes(rest) ELSE <<>>,
           lineOriented |-> FALSE]

\* parseKeyAndType(keyPart): the key and the annotation after the first "!"
parseKeyAndType(keyPart) ==
  LET idx == Index(keyPart, <<"!">>)
  IN IF idx > 0
     THEN [key |-> SubSeq(keyPart, 1, idx - 1),
           type |-> SubSeq(keyPart, idx + 1, Len(keyPart))]
     ELSE [key |-> keyPart, type |-> <<>>]

\* parseInlineList, were the empty pieces left out of the list
parseInlineListNoEmpty(line0) ==
  LET line == TrimSuffix(TrimPrefix(TrimSpace(line0), <<"[">>), <<"]">>)
      items == Split(line, <<",">>)
      kept == SelectSeq(items, LAMBDA it : TrimSpace(it) # <<>>)
  IN AnySl([i \in 1..Len(kept) |-> Str(TrimSpace(kept[i]))])

\* parseInlineList(line)
parseInlineList(line0) ==
  LET line == TrimSuffix(TrimPrefix(TrimSpace(line0), <<"[">>), <<"]">>)
      items == Split(line, <<",">>)
  IN IF line = <<>> THEN AnySl(<<>>)
     ELSE AnySl([i \in 1..Len(items) |-> Str(TrimSpace(items[i]))])

\* the loop of parseInlineBlock over the parts
RECURSIVE inlineBlockParts(_, _)
inlineBlockParts(parts, block) ==
  IF parts = <<>> THEN block
  ELSE LET part == TrimSpace(parts[1])
       IN IF part = <<>> THEN inlineBlockParts(Tail(parts), block)
          ELSE inlineBlockParts(
                 Tail(parts),
                 Put(block, parseKeyAndType(splitKeyValue(part).key).key,
                     Str(splitKeyValue(part).val)))

\* parseInlineBlock(s)
parseInlineBlock(s0) ==
  LET s == TrimSpace(TrimSuffix(TrimPrefix(TrimSpace(s0), <<"{">>), <<"}">>))
  IN IF s = <<>> THEN Blk(EmptyMap)
     ELSE Blk(inlineBlockParts(Split(s, <<",">>), EmptyMap))

\* the value of a decimal digit
DigitVal(c) ==
  CASE c = "0" -> 0 [] c = "1" -> 1 [] c = "2" -> 2 [] c = "3" -> 3
    [] c = "4" -> 4 [] c = "5" -> 5 [] c = "6" -> 6 [] c = "7" -> 7
    [] c = "8" -> 8 [] c = "9" -> 9

RECURSIVE DecimalVal(_)
DecimalVal(ds) ==
  IF ds = <<>> THEN 0
  ELSE 10 * DecimalVal(SubSeq(ds, 1, Len(ds) - 1)) + DigitVal(ds[Len(ds)])

\* strconv.Atoi(s): an optional sign, then one digit at least and digits
\* only
Atoi(s) ==
  LET signed == Len(s) >= 1 /\ s[1] \in {"+", "-"}
      ds     == IF signed THEN Tail(s) ELSE s
  IN IF ds # <<>> /\ \A i \in 1..Len(ds) : ds[i] \in Digits
     THEN [ok |-> TRUE,
           n |-> IF signed /\ s[1] = "-" THEN 0 - DecimalVal(ds) ELSE DecimalVal(ds)]
     ELSE [ok |-> FALSE, n |-> 0]

\* a run-time panic
Panic == [t |-> "panic"]

\* dedentLines(s, n); a negative n passes the length test of every line
\* and the slice expression line[n:] panics
dedentLines(s, n) ==
  IF n < 0 THEN Panic
  ELSE LET ls == Split(s, NL)
       IN Str(JoinWith([i \in 1..Len(ls) |->
                          IF Len(ls[i]) >= n
                          THEN SubSeq(ls[i], n + 1, Len(ls[i]))
                          ELSE ls[i]], NL))

-----------------------------------------------------------------------------
(* The parser: values that span lines.  The parse functions under way are  *)
(* kept as a stack of frames, outermost first; a frame is the call of      *)
(* parseBlock, parseList, parseTable, parseBlockOfLists or parseMultiline  *)
(* that reads the lines now, with what it has gathered (acc) and the key   *)
(* and annotation of the node waiting for its value.  Keys and annotations *)
(* of parsed nodes are strings of characters.                              *)

\* skipEmptyLine(line) || skipComment(line)
skipLine(line) ==
  TrimSpace(line) = <<>> \/ HasPrefix(TrimSpace(line), <<"#">>)

Columns == <<"c", "o", "l", "u", "m", "n", "s">>
Rows    == <<"r", "o", "w", "s">>
TableType  == <<"t", "a", "b", "l", "e">>
QuotedType == <<"q", "u", "o", "t", "e", "d">>
StringType == <<"s", "t", "r", "i", "n", "g">>
UseWord  == <<"!", "u", "s", "e">>
LintWord == <<"!", "l", "i", "n", "t">>
UseKey   == <<"_", "u", "s", "e">>
LintKey  == <<"_", "l", "i", "n", "t">>
DirectiveType == <<"d", "i", "r", "e", "c", "t", "i", "v", "e">>

\* a call of `kind` just entered for the node key!type
ParseFrame(kind, key, type) ==
  [kind |-> kind, key |-> key, type |-> type,
   acc |-> IF kind \in {"block", "table"} THEN EmptyMap ELSE <<>>]

\* what the call returns when its loop ends, at its closing line or at the
\* end of the input alike
returned(fr) ==
  CASE fr.kind = "block" -> Blk(fr.acc)
    [] fr.kind = "list"  -> Lst(fr.acc)
    [] fr.kind = "table" -> [t |-> "map", m |-> fr.acc]
    [] fr.kind = "rows"  -> AnySl(fr.acc)
    [] fr.kind = "multiline" ->
         IF fr.type # <<>> /\ Atoi(fr.type).ok
         THEN dedentLines(JoinWith(fr.acc, NL), Atoi(fr.type).n)
         ELSE Str(JoinWith(fr.acc, NL))

\* place, were parseBlock to keep the value a key already has
placeFirstWins(stk, pnodes, key, type, v) ==
  IF stk = <<>>
  THEN [stack |-> stk, nodes |-> Append(pnodes, Node(key, type, v))]
  ELSE LET up == stk[Len(stk)]
           acc == CASE up.kind = "block" ->
                         IF key \in DOMAIN up.acc THEN up.acc
                         ELSE Put(up.acc, key, v)
                    [] up.kind = "list"  -> Append(up.acc, v)
                    [] up.kind = "table" -> Put(up.acc, Rows, v)
       IN [stack |-> [stk EXCEPT ![Len(stk)].acc = acc], nodes |-> pnodes]

\* the value v of the node key!type goes where the caller puts it:
\* parseNodes appends the node, parseBlock sets block[key], parseList
\* appends the item, parseTable sets table["rows"]
place(stk, pnodes, key, type, v) ==
  IF stk = <<>>
  THEN [stack |-> stk, nodes |-> Append(pnodes, Node(key, type, v))]
  ELSE LET up == stk[Len(stk)]
           acc == CASE up.kind = "block" -> Put(up.acc, key, v)
                    [] up.kind = "list"  -> Append(up.acc, v)
                    [] up.kind = "table" -> Put(up.acc, Rows, v)
       IN [stack |-> [stk EXCEPT ![Len(stk)].acc = acc], nodes |-> pnodes]

\* a call is entered
enter(stk, pnodes, kind, key, type) ==
  [stack |-> Append(stk, ParseFrame(kind, key, type)), nodes |-> pnodes]

\* parseValue(scanner, node, valPart, lineOriented): the cases of the
\* switch in their order
parseValue(stk, pnodes, key, type, valPart) ==
  IF HasPrefix(valPart, Fence) THEN enter(stk, pnodes, "multiline", key, type)
  ELSE IF valPart = <<"{">> THEN enter(stk, pnodes, "block", key, type)
  ELSE IF valPart = <<"[">> THEN enter(stk, pnodes, "list", key, type)
  ELSE IF HasPrefix(valPart, <<"[">>) /\ HasSuffix(valPart, <<"]">>)
  THEN place(stk, pnodes, key, type, parseInlineList(valPart))
  ELSE IF HasPrefix(valPart, <<"{">>) /\ Contains(valPart, <<"}">>)
  THEN place(stk, pnodes, key, type, parseInlineBlock(valPart))
  ELSE IF type = TableType /\ HasPrefix(valPart, <<"{">>)
  THEN enter(stk, pnodes, "table", key, type)
  ELSE place(stk, pnodes, key, type, Str(valPart))

\* parseLine(scanner, line)
parseLine(stk, pnodes, line) ==
  LET kv == splitKeyValue(line)
      kt == parseKeyAndType(kv.key)
  IN IF kt.type = QuotedType
     THEN place(stk, pnodes, kt.key, StringType,
                Str(IF ~HasPrefix(kv.val, Quote) \/ ~HasSuffix(kv.val, Quote)
                    THEN Quote \o kv.val \o Quote
                    ELSE kv.val))
     ELSE parseValue(stk, pnodes, kt.key, kt.type, kv.val)

\* parseListItem(scanner, line)
parseListItem(stk, pnodes, line) ==
  IF HasPrefix(line, <<"{">>) THEN enter(stk, pnodes, "block", <<>>, <<>>)
  ELSE IF HasPrefix(line, <<"[">>)
  THEN place(stk, pnodes, <<>>, <<>>, parseInlineList(line))
  ELSE place(stk, pnodes, <<>>, <<>>, Str(line))

\* one turn of the loop of the call on top of the stack, for a line that is
\* not its closing line
insideLine(stk, pnodes, line0) ==
  LET fr   == stk[Len(stk)]
      line == TrimSpace(line0)
      same == [stack |-> stk, nodes |-> pnodes]
  IN CASE fr.kind = "multiline" ->
            [stack |-> [stk EXCEPT ![Len(stk)].acc = Append(@, line0)],
             nodes |-> pnodes]
       [] fr.kind = "block" ->
            IF skipLine(line) THEN same ELSE parseLine(stk, pnodes, line)
       [] fr.kind = "list" ->
            IF skipLine(line) THEN same ELSE parseListItem(stk, pnodes, line)
       [] fr.kind = "table" ->
            IF skipLine(line) THEN same
            ELSE IF HasPrefix(line, Columns)
            THEN [stack |-> [stk EXCEPT ![Len(stk)].acc =
                               Put(@, Columns,
                                   parseInlineList(SubSeq(line, Len(Columns) + 1,
                                                          Len(line))))],
                  nodes |-> pnodes]
            ELSE IF HasPrefix(line, Rows)
            THEN enter(stk, pnodes, "rows", Rows, <<>>)
            ELSE same
       [] fr.kind = "rows" ->
            IF ~skipLine(line) /\ HasPrefix(line, <<"[">>)
            THEN [stack |-> [stk EXCEPT ![Len(stk)].acc =
                               Append(@, parseInlineList(line))],
                  nodes |-> pnodes]
            ELSE same

\* the line that ends the loop of a call
closingLine(kind) ==
  CASE kind \in {"block", "table", "rows"} -> <<"}">>
    [] kind = "list"      -> <<"]">>
    [] kind = "multiline" -> Fence

\* parseUseDirective(scanner, line): the node, or the error
parseUseDirective(line0) ==
  LET line == TrimSpace(TrimPrefix(TrimSpace(line0), UseWord))
  IN IF HasPrefix(line, <<"[">>)
     THEN LET namespaces == parseInlineList(line).items
          IN [ok |-> TRUE,
              v |-> Node(UseKey, DirectiveType,
                         [t |-> "UseDirective",
                          Namespaces |-> [i \in 1..Len(namespaces) |->
                                            namespaces[i].s]])]
     ELSE [ok |-> FALSE, v |-> "!use directive requires a list"]

\* parseLintDirective's test of the line, were any text after the word to
\* pass for the opening of a block
lintOpensBlockLenient(line0) == TRUE

\* parseLintDirective(scanner, line): whether the line opens a block
lintOpensBlock(line0) ==
  TrimSpace(TrimPrefix(TrimSpace(line0), LintWord)) = <<"{">>

-----------------------------------------------------------------------------
(* Specification of ParseDocument                                          *)

MaxLines   == 3     \* most lines of a document made of the pooled lines
MaxContent == 2     \* most content lines of a multiline text

\* the examples of line-oriented parsing
ExNameLine    == <<"n", "a", "m", "e", ":", " ", "J", "o", "h", "n", " ", "D", "o", "e">>
ExWebsiteLine == <<"w", "e", "b", "s", "i", "t", "e", " ", "h", "t", "t", "p", "s", ":", "/", "/", "e", "x", "a", "m", "p", "l", "e", ".", "c", "o", "m">>
ExCountLine   == <<"c", "o", "u", "n", "t", "!", "i", "n", "t", ":", " ", "4", "2">>
ExMessageLine == <<"m", "e", "s", "s", "a", "g", "e", ":", " ", "H", "e", "l", "l", "o", " ", "W", "o", "r", "l", "d", " ", " ", "#", " ", "c">>

KeyTokens ==
  {<<"k">>,
   <<"k", ":">>,
   <<"k", "!", "i", "n", "t", ":">>,
   <<"k", "!", "q", "u", "o", "t", "e", "d">>,
   <<"k", "!", "q", "u", "o", "t", "e", "d", ":">>,
   <<"u", ":", "/", "/", "h", ":">>,
   <<"a", ":", "b">>,
   <<"k", ":", ":">>}

Separators == {<<" ">>, <<"\t", " ">>}

ValueTexts ==
  {<<"v">>,
   <<"J", " ", "D">>,
   <<"u", ":", "/", "/", "h">>,
   <<"\"", "a", " ", "b", "\"">>,
   <<"\"", "a", " ", "#", " ", "b", "\"">>,
   <<"a", " ", "#", " ", "c">>,
   <<"\"">>,
   <<"\"", "\"">>,
   <<"\"", "q">>,
   <<"#", "c">>,
   <<"\"", "q", "\"">>}

\* documents of one key/value line
LineDocs ==
  {<<k \o sep \o v>> : k \in KeyTokens, sep \in Separators, v \in ValueTexts}
  \cup {<<k>> : k \in KeyTokens}
  \cup {<<ExNameLine>>, <<ExWebsiteLine>>, <<ExCountLine>>, <<ExMessageLine>>}

\* lines that open and close blocks, lists and multiline texts, directives
\* well and badly formed, a comment, plain lines
LinePool ==
  {<<"k", " ", "{">>,
   <<"k", " ", "[">>,
   <<"k", " ", "^", "^", "^">>,
   <<"a", " ", "1">>,
   <<"}">>,
   <<"]">>,
   <<"^", "^", "^">>,
   <<"!", "u", "s", "e", " ", "[", "a", ",", " ", "b", "]">>,
   <<"!", "u", "s", "e", " ", "[">>,
   <<"!", "u", "s", "e", " ", "a">>,
   <<"!", "u", "s", "e">>,
   <<"!", "l", "i", "n", "t", " ", "{">>,
   <<"!", "l", "i", "n", "t", " ", "a">>,
   <<"#", " ", "c">>,
   <<"b">>}

PoolDocs == SeqsUpTo(LinePool, MaxLines)

\* documents of one node written as a table
TableHeaders == {<<"t", "!", "t", "a", "b", "l", "e", " ", "{">>,
                 <<"t", " ", "{">>,
                 <<"t", "!", "t", "a", "b", "l", "e", " ", "{", "x">>}
TableBody == <<<<" ", " ", "c", "o", "l", "u", "m", "n", "s", " ", "[", "a", ",", " ", "b", "]">>,
               <<" ", " ", "r", "o", "w", "s", " ", "{">>,
               <<" ", " ", " ", " ", "[", "1", ",", " ", "2", "]">>,
               <<" ", " ", " ", " ", "[", "3", ",", " ", "4", "]">>,
               <<" ", " ", "}">>,
               <<"}">>>>
TableDocs ==
  {<<h>> \o b \o tl :
     h \in TableHeaders,
     b \in {TableBody, <<TableBody[1], TableBody[6]>>},
     tl \in {<<>>, <<<<"z", " ", "1">>>>}}

\* documents of one multiline text: the annotation, the content lines, the
\* closing fence or none
DedentTypes == {<<>>, <<"0">>, <<"1">>, <<"2">>, <<"+", "1">>, <<"-", "1">>, <<"x">>}
ContentLines == {<<>>, <<" ", "a">>, <<" ", " ", "b">>, <<"c">>}
MultilineDocs ==
  {<<(IF ty = <<>> THEN <<"k">> ELSE <<"k", "!">> \o ty) \o <<" ">> \o Fence>>
     \o c \o cl :
     ty \in DedentTypes,
     c \in (SeqsUpTo(ContentLines, MaxContent) \ {<<>>}),
     cl \in {<<>>, <<Fence>>}}

\* documents whose lines repeat a key, at top level and inside one block
MaxEntries == 3     \* most key/value lines of such a document
DupEntries == {[k |-> <<"a">>, v |-> <<"1">>], [k |-> <<"a">>, v |-> <<"2">>],
               [k |-> <<"b">>, v |-> <<"3">>]}
EntryLines(es) == [i \in 1..Len(es) |-> es[i].k \o <<" ">> \o es[i].v]
BlockDoc(es) == <<<<"k", " ", "{">>>> \o EntryLines(es) \o <<<<"}">>>>
DupSeqs == SeqsUpTo(DupEntries, MaxEntries)
DupDocs == {EntryLines(es) : es \in DupSeqs} \cup {BlockDoc(es) : es \in DupSeqs}

\* documents of one node whose value is a list written on the line
InlineInteriors ==
  {<<>>,
   <<"a">>,
   <<"a", ",", " ", "b">>,
   <<"a", ",", "b", ",", "c">>,
   <<"\"", "a", ",", "b", "\"", ",", " ", "c">>,
   <<" ", "a", " ", ",", ",", " ", "b", " ">>,
   <<" ">>,
   <<",">>,
   <<"a", ",">>}
InlineDoc(interior) == <<<<"k", " ", "[">> \o interior \o <<"]">>>>
InlineDocs == {InlineDoc(interior) : interior \in InlineInteriors}

ParseInputs ==
  LineDocs \cup PoolDocs \cup TableDocs \cup MultilineDocs \cup DupDocs
  \cup InlineDocs

InitParse ==
  /\ pc = "parsing"
  /\ options = DefaultOptions
  /\ EngineIdle
  /\ ResolveIdle
  /\ LoadIdle
  /\ PatchIdle
  /\ OverlayIdle
  /\ base = NoValue
  /\ overlay = NoValue
  /\ merged = NoValue
  /\ lines \in ParseInputs
  /\ lineNum = 0
  /\ parsedNodes = <<>>
  /\ err = NoError

\* one turn of parseNodes' loop: the next line is skipped, or taken as a
\* directive or a key/value line, or refused
ParseNode ==
  /\ pc = "parsing"
  /\ stack = <<>>
  /\ lineNum < Len(lines)
  /\ lineNum' = lineNum + 1
  /\ LET line    == lines[lineNum + 1]
         trimmed == TrimSpace(line)
         refuse(msg) == /\ pc' = "error"
                        /\ err' = [line |-> lineNum + 1, msg |-> msg]
                        /\ UNCHANGED <<parsedNodes, stack>>
         accept(r)   == /\ parsedNodes' = r.nodes
                        /\ stack' = r.stack
                        /\ UNCHANGED <<pc, err>>
     IN IF skipLine(line)
        THEN UNCHANGED <<pc, err, parsedNodes, stack>>
        ELSE IF HasPrefix(trimmed, UseWord)
        THEN IF parseUseDirective(trimmed).ok
             THEN accept([stack |-> stack,
                          nodes |-> Append(parsedNodes,
                                           parseUseDirective(trimmed).v)])
             ELSE refuse(parseUseDirective(trimmed).v)
        ELSE IF HasPrefix(trimmed, LintWord)
        THEN IF lintOpensBlock(trimmed)
             THEN accept(enter(stack, parsedNodes, "block", LintKey, DirectiveType))
             ELSE refuse("!lint directive requires a block")
        ELSE accept(parseLine(stack, parsedNodes, line))
  /\ UNCHANGED <<options, vars, visited, base, overlay, merged, iteration, doc,
                 result, files, ret, patches, shared, overlayNodes, calls,
                 lines>>

\* the call on top of the stack returns: its value goes to its caller; a
\* panic inside it ends the program
return(stk) ==
  LET v == returned(stk[Len(stk)])
  IN IF v = Panic
     THEN /\ pc' = "panic"
          /\ UNCHANGED <<stack, parsedNodes>>
     ELSE LET r == place(SubSeq(stk, 1, Len(stk) - 1), parsedNodes,
                         stk[Len(stk)].key, stk[Len(stk)].type, v)
          IN /\ stack' = r.stack
             /\ parsedNodes' = r.nodes
             /\ UNCHANGED pc

\* one turn of the loop of parseBlock, parseList, parseTable,
\* parseBlockOfLists or parseMultiline: the next line closes the construct
\* or is taken into it
ParseInside ==
  /\ pc = "parsing"
  /\ stack # <<>>
  /\ lineNum < Len(lines)
  /\ lineNum' = lineNum + 1
  /\ IF TrimSpace(lines[lineNum + 1]) = closingLine(stack[Len(stack)].kind)
     THEN return(stack)
     ELSE LET r == insideLine(stack, parsedNodes, lines[lineNum + 1])
          IN /\ stack' = r.stack
             /\ parsedNodes' = r.nodes
             /\ UNCHANGED pc
  /\ UNCHANGED <<options, vars, visited, base, overlay, merged, iteration, doc,
                 result, files, ret, patches, shared, overlayNodes, calls,
                 lines, err>>

\* NextLine finds no line while a construct is open: the loop of the call
\* on top of the stack breaks and the call returns what it has
EndOfInput ==
  /\ pc = "parsing"
  /\ stack # <<>>
  /\ lineNum >= Len(lines)
  /\ return(stack)
  /\ UNCHANGED <<options, vars, visited, base, overlay, merged, iteration, doc,
                 result, files, ret, patches, shared, overlayNodes, calls,
                 lines, lineNum, err>>

\* the end of the input: parseNodes returns its nodes and ParseDocument
\* the document
ReturnDocument ==
  /\ pc = "parsing"
  /\ stack = <<>>
  /\ lineNum >= Len(lines)
  /\ result' = Doc(parsedNodes)
  /\ pc' = "done"
  /\ UNCHANGED <<options, vars, visited, base, overlay, merged, iteration, doc,
                 files, stack, ret, patches, shared, overlayNodes, calls,
                 parserVars>>

NextParse == ParseNode \/ ParseInside \/ EndOfInput \/ ReturnDocument

SpecParse == InitParse /\ [][NextParse]_allVars

-----------------------------------------------------------------------------
(* Specification of the Scanner: calls of NextLine on a reader of a few    *)
(* lines, continued after the reader is exhausted                          *)

MaxScanned  == 3     \* most lines of the reader
MaxNextLine == 5     \* most calls of NextLine

\* NextLine, were the line number to grow at every call
NextLineCountsCalls(ls, n) ==
  IF n >= Len(ls)
  THEN [num |-> n + 1, line |-> <<>>, ok |-> FALSE, lineNum |-> n + 1]
  ELSE [num |-> n + 1, line |-> ls[n + 1], ok |-> TRUE, lineNum |-> n + 1]

\* Scanner.NextLine on the reader of the lines ls, n lines of which have
\* been scanned: what it returns, and the lineNum it leaves.  s.Scan() is
\* false once the lines are used up.
NextLine(ls, n) ==
  IF n >= Len(ls)
  THEN [num |-> n, line |-> <<>>, ok |-> FALSE, lineNum |-> n]
  ELSE [num |-> n + 1, line |-> ls[n + 1], ok |-> TRUE, lineNum |-> n + 1]

\* the reader's lines: blank, a comment, a key/value line
ScannedLines == {<<>>, <<"#", " ", "c">>, <<"a", " ", "1">>}

InitScanner ==
  /\ pc = "scanning"
  /\ options = DefaultOptions
  /\ EngineIdle
  /\ ResolveIdle
  /\ LoadIdle
  /\ PatchIdle
  /\ OverlayIdle
  /\ base = NoValue
  /\ overlay = NoValue
  /\ merged = NoValue
  /\ lines \in SeqsUpTo(ScannedLines, MaxScanned)
  /\ lineNum = 0
  /\ parsedNodes = <<>>
  /\ err = NoError

\* one call of NextLine: result is what it returns, calls counts the
\* calls and iteration those that returned a line
CallNextLine ==
  /\ pc = "scanning"
  /\ calls < MaxNextLine
  /\ calls' = calls + 1
  /\ LET r == NextLine(lines, lineNum)
     IN /\ result' = [num |-> r.num, line |-> r.line, ok |-> r.ok]
        /\ lineNum' = r.lineNum
        /\ iteration' = IF r.ok THEN iteration + 1 ELSE iteration
  /\ UNCHANGED <<pc, options, vars, visited, base, overlay, merged, doc, files,
                 stack, ret, patches, shared, overlayNodes, lines,
                 parsedNodes, err>>

SpecScanner == InitScanner /\ [][CallNextLine]_allVars

-----------------------------------------------------------------------------
(* Specification of applyPatches on the assignments of one `!patch` block, *)
(* in an order of Go's choosing: processDocument collects them with a      *)
(* range over the block, a map                                             *)

MaxPatches == 2     \* most assignments of the `!patch` block

\* applyPatchPath, as a function of the node slice
applyPatchPath(nodes, path, value) ==
  LET i == patchTarget(nodes, path)
  IN IF i = 0 THEN nodes
     ELSE IF Len(path) = 1
     THEN [nodes EXCEPT ![i].Value = value]
     ELSE IF IsBlock(nodes[i].Value)
     THEN [nodes EXCEPT ![i].Value =
             Blk(applyPatchToBlock(@.m, Tail(path), value))]
     ELSE nodes

\* applyPatches, as a function of the node slice: the patches in their order
RECURSIVE applyPatches(_, _)
applyPatches(nodes, ps) ==
  IF ps = <<>> THEN nodes
  ELSE applyPatches(applyPatchPath(nodes, SplitDots(ps[1].Key), ps[1].Value),
                    Tail(ps))

\* the paths of the block's assignments, some of them one under another
OrderKeys ==
  {JoinWith(p, <<".">>) :
     p \in {<<<<"server">>, <<"tls">>>>,
            <<<<"server">>, <<"tls">>, <<"on">>>>,
            <<<<"server">>, <<"tls">>, <<"zz">>>>,
            <<<<"server">>, <<"host">>>>,
            <<<<"server">>>>,
            <<<<"servers", "[", "*", "]">>, <<"cpu">>>>}}

\* what is assigned: a scalar or a block
OrderValues == {P9, Blk([j \in {"on"} |-> S2])}

\* the `!patch` block: a map from paths to values
PatchBlocks ==
  UNION {[K -> OrderValues] :
           K \in {X \in SUBSET OrderKeys : Cardinality(X) \in 1..MaxPatches}}

\* the patch nodes `for k, v := range block` can append: the block's
\* entries, each once, in any order
RangeOrders(block) ==
  {ks \in [1..Cardinality(DOMAIN block) -> DOMAIN block] :
     \A i, j \in DOMAIN ks : i # j => ks[i] # ks[j]}

PatchNodesOf(block, ks) == [i \in DOMAIN ks |-> Node(ks[i], "", block[ks[i]])]

InitPatchOrder ==
  /\ pc = "start"
  /\ options = DefaultOptions
  /\ EngineIdle
  /\ LoadIdle
  /\ iteration = 0
  /\ doc \in PatchDocs
  /\ result = NoDocument
  /\ \E block \in PatchBlocks : \E ks \in RangeOrders(block) :
       patches = PatchNodesOf(block, ks)
  /\ shared = {}
  /\ base = NoValue
  /\ overlay = NoValue
  /\ merged = NoValue
  /\ ParserIdle
  /\ OverlayIdle

SpecPatchOrder == InitPatchOrder /\ [][NextPatch]_allVars

-----------------------------------------------------------------------------
(* Properties of merging                                                   *)

\* the union of two blocks of scalars, the later block winning
UnionLaterWins(m1, m2) ==
  [j \in DOMAIN m1 \cup DOMAIN m2 |-> IF j \in DOMAIN m2 THEN m2[j] ELSE m1[j]]

\* C5: merging two blocks under `deep` gives the union of the keys, a key
\* of both blocks whose two values are blocks being merged in turn (here
\* blocks of scalars: the union of their keys, the later scalar winning) and
\* any other key of both taking the later value; under `shallow` and
\* `replace` the result is the later block.  The example {a: 1, b: {x: 1}}
\* with {b: {y: 2}, c: 3} gives {a: 1, b: {x: 1, y: 2}, c: 3} under deep.
C5_BlockMerge ==
  (pc = "done" /\ IsBlock(base) /\ IsBlock(overlay)) =>
    /\ options.MergeStrategy \in {"shallow", "replace"} => merged = overlay
    /\ options.MergeStrategy = "deep" =>
         /\ IsBlock(merged)
         /\ DOMAIN merged.m = DOMAIN base.m \cup DOMAIN overlay.m
         /\ \A k \in DOMAIN merged.m :
              IF k \notin DOMAIN overlay.m THEN merged.m[k] = base.m[k]
              ELSE IF k \notin DOMAIN base.m THEN merged.m[k] = overlay.m[k]
              ELSE IF IsBlock(base.m[k]) /\ IsBlock(overlay.m[k])
              THEN merged.m[k] = Blk(UnionLaterWins(base.m[k].m, overlay.m[k].m))
              ELSE merged.m[k] = overlay.m[k]
         /\ (base = ExBase /\ overlay = ExOverlay) => merged = ExDeep

C5_Witness ==
  /\ pc = "done"
  /\ options.MergeStrategy = "deep"
  /\ base = ExBase
  /\ overlay = ExOverlay
  /\ merged = ExDeep

\* the items of s that are not strings or are the first occurrence of their
\* string, in the order of s
FirstOccurrences(s) ==
  LET keep(i) == ~IsString(s[i]) \/ \A j \in 1..(i - 1) : s[j] # s[i]
      RECURSIVE upTo(_)
      upTo(n) == IF n = 0 THEN <<>>
                 ELSE upTo(n - 1) \o (IF keep(n) THEN <<s[n]>> ELSE <<>>)
  IN upTo(Len(s))

ListMergeAsClaimed ==
  LET both == base.items \o overlay.items
  IN /\ options.ListStrategy = "append"  => merged = Lst(both)
     /\ options.ListStrategy = "unique"  => merged = Lst(FirstOccurrences(both))
     /\ options.ListStrategy = "replace" => merged = overlay

Precedes(nodes, k1, k2) ==
  \E i, j \in 1..Len(nodes) : i < j /\ nodes[i].Key = k1 /\ nodes[j].Key = k2

UniqueKeys(nodes) ==
  \A i, j \in 1..Len(nodes) : nodes[i].Key = nodes[j].Key => i = j

\* C7: when k1 precedes k2 in the base document, or in the later document,
\* k1 precedes k2 in the merged document (documents without repeated keys).
C7_MergeKeepsOrder ==
  (pc = "done" /\ UniqueKeys(base.Nodes) /\ UniqueKeys(overlay.Nodes)) =>
    \A k1, k2 \in TopKeys :
      (Precedes(base.Nodes, k1, k2) \/ Precedes(overlay.Nodes, k1, k2))
        => (Precedes(merged.Nodes, k1, k2) /\ ~Precedes(merged.Nodes, k2, k1))

-----------------------------------------------------------------------------
(* Properties of variable resolution                                       *)

\* the paths of the references written in a string
RefsIn(s) ==
  {SubSeq(s, i + 6, refEnd(s, i + 6) - 1) :
     i \in {i \in 1..Len(s) : MatchAt(s, VarsPrefix, i)}}

\* the paths a value refers to, in its own text or in an item of a list
RefsOf(v) ==
  CASE v.t = "string" -> RefsIn(v.s)
    [] v.t \in {"List", "[]any"} ->
         UNION {IF v.items[i].t = "string" THEN RefsIn(v.items[i].s) ELSE {} :
                  i \in 1..Len(v.items)}
    [] OTHER -> {}

\* the variables as harvested from the document's vars block
Declared == harvestVars(doc.Nodes, 1, EmptyMap)

RECURSIVE ReachesIn(_, _, _, _)
ReachesIn(vs, p, q, n) ==
  /\ n > 0
  /\ \/ q \in RefsOf(vs[p])
     \/ \E m \in RefsOf(vs[p]) \cap DOMAIN vs : ReachesIn(vs, m, q, n - 1)

\* some variable refers to itself, directly or through other variables
Cyclic(vs) == \E p \in DOMAIN vs : ReachesIn(vs, p, p, Cardinality(DOMAIN vs))

\* every reference of every variable is to a declared variable
Closed(vs) == \A p \in DOMAIN vs : RefsOf(vs[p]) \subseteq DOMAIN vs

\* no variable refers to anything
Plain(vs) == \A p \in DOMAIN vs : RefsOf(vs[p]) = {}

Returned == pc \in {"done", "error"}
Ended    == pc \in {"done", "error", "diverged"}

\* C2: when the declared variables refer to each other in a cycle, the call
\* ends, and ends with the circular-dependency error of the iteration
\* bound; it does not run on without returning.
C2_CycleIsReported ==
  (Ended /\ Cyclic(Declared)) => pc = "error"

\* C3: a scalar with a reference to a path that is not in vars (the
\* variables themselves being plain scalars and lists) is resolved: the
\* call returns the document with that scalar unchanged.
C3_UnknownReferenceKept ==
  (Ended /\ Plain(Declared) /\ doc.Nodes[2].Value.t = "string"
     /\ RefsIn(doc.Nodes[2].Value.s) # {}
     /\ RefsIn(doc.Nodes[2].Value.s) \cap DOMAIN Declared = {})
    => (pc = "done" /\ result.Nodes[2].Value = doc.Nodes[2].Value)

\* every reference written in the document's own node is to a declared
\* variable
DocClosed ==
  LET v == doc.Nodes[2].Value
  IN /\ RefsOf(v) \subseteq DOMAIN Declared
     /\ v.t = "Block" =>
          \A k \in DOMAIN v.m : RefsOf(v.m[k]) \subseteq DOMAIN Declared

\* C4: when the declared variables are acyclic (and every reference is to
\* a declared variable), whatever kind of value each holds, the call
\* returns without a circular-dependency error, the fixpoint loop having
\* stopped within two passes because a pass changed nothing, and no
\* variable then refers to a declared variable.
C4_AcyclicVarsConverge ==
  (Ended /\ ~Cyclic(Declared) /\ Closed(Declared) /\ DocClosed) =>
    /\ pc = "done"
    /\ iteration <= 1
    /\ \A p \in DOMAIN vars : RefsOf(vars[p]) \cap DOMAIN vars = {}

\* a call fails to return only on a cycle or on a reference to an
\* undeclared path
DivergesOnlyOnCycleOrUnknown ==
  pc = "diverged" =>
    \/ Cyclic(Declared)
    \/ ~Closed(Declared)
    \/ \E i \in 1..Len(doc.Nodes) :
         ~(RefsOf(doc.Nodes[i].Value) \subseteq DOMAIN Declared)
    \/ \E i \in 1..Len(doc.Nodes) :
         /\ doc.Nodes[i].Value.t = "Block"
         /\ \E k \in DOMAIN doc.Nodes[i].Value.m :
              ~(RefsOf(doc.Nodes[i].Value.m[k]) \subseteq DOMAIN Declared)

-----------------------------------------------------------------------------
(* Properties of loading                                                   *)

\* the files a file names as base or include, however the list is written
NamedBy(f) ==
  (IF files[f].base # <<>> THEN {files[f].base} ELSE {})
  \cup {files[f].includes[i] : i \in 1..Len(files[f].includes)}

RECURSIVE LoadsIn(_, _, _)
LoadsIn(f, g, n) ==
  /\ n > 0
  /\ f \in DOMAIN files
  /\ \/ g \in NamedBy(f)
     \/ \E h \in NamedBy(f) : LoadsIn(h, g, n - 1)

\* the files the load of f gets to, f included
LoadedFrom(f) == {f} \cup {g \in FileNames \cup {Missing} : LoadsIn(f, g, NumFiles)}

\* some file the load of f gets to is named again further down its own chain
ChainRepeats(f) == \E g \in LoadedFrom(f) : LoadsIn(g, g, NumFiles)

\* C1: when a file path comes up again in the base/include chain of the
\* file given to ProcessTemplate (every file named being on disk), the call
\* ends with the circular-dependency error, however the include lists are
\* written; it does not return a document.
C1_CircularIncludeReported ==
  (pc \in {"done", "error", "diverged"} /\ doc \in FileNames
     /\ ChainRepeats(doc) /\ Missing \notin LoadedFrom(doc))
    => (pc = "error" /\ ret = "circular dependency")

-----------------------------------------------------------------------------
(* Properties of patches                                                   *)

IndexName(i) == <<"#1", "#2", "#3", "#4">>[i]

\* the places of a value: the keys of its blocks and the items of its lists,
\* each as the path of keys and item numbers that leads to it
RECURSIVE PlacesIn(_)
PlacesIn(v) ==
  CASE v.t = "Block" ->
         UNION {{<<k>>} \cup {<<k>> \o q : q \in PlacesIn(v.m[k])} : k \in DOMAIN v.m}
    [] v.t = "List" ->
         UNION {{<<IndexName(i)>> \o q : q \in PlacesIn(v.items[i])} :
                  i \in 1..Len(v.items)}
    [] OTHER -> {}

\* the top-level keys of a document and the places below them
Places(d) ==
  UNION {{<<d.Nodes[i].Key>>} \cup {<<d.Nodes[i].Key>> \o q : q \in PlacesIn(d.Nodes[i].Value)} :
           i \in 1..Len(d.Nodes)}

\* C8: the document given to applyPatches is, after every patch, what it
\* was before it.
C8_InputNotMutated ==
  [][pc = "patching" => doc' = doc]_allVars

\* C9: after a patch whose path is <list>[*].<key>, every block among the
\* items of the list has the value under that key, the list being a
\* top-level node or a key of a top-level block; after <list>[*] every item
\* is the value.
C9_WildcardReachesEveryItem ==
  pc = "done" =>
    \A n \in 1..Len(result.Nodes) :
      LET path  == SplitDots(patches[1].Key)
          node  == result.Nodes[n]
          star(k) == <<k, "[", "*", "]">>
          patched(list, rest) ==
            \A i \in 1..Len(list.items) :
              IF rest = <<>> THEN list.items[i] = P9
              ELSE IsBlock(list.items[i]) =>
                     /\ KeyOf(rest[1]) \in DOMAIN list.items[i].m
                     /\ list.items[i].m[KeyOf(rest[1])] = P9
      IN /\ (IsList(node.Value) /\ Len(path) \in {1, 2}
               /\ path[1] = star(node.Key)
               /\ (Len(path) = 2 => path[2] \in {<<"cpu">>, <<"host">>, <<"zz">>}))
              => patched(node.Value, Tail(path))
         /\ (IsBlock(node.Value) /\ Len(path) \in {2, 3}
               /\ path[1] = Chars(node.Key)
               /\ \E k \in DOMAIN node.Value.m :
                    path[2] = star(k) /\ IsList(node.Value.m[k])
               /\ (Len(path) = 3 => path[3] \in {<<"cpu">>, <<"host">>, <<"zz">>}))
              => patched(node.Value.m[path[2][1]], Tail(Tail(path)))

\* C10: a patch adds no top-level node and no block key: every place of the
\* document after a patch was a place of it before.
C10_PatchAddsNothing ==
  [][pc = "patching" => Places(result') \subseteq Places(result)]_allVars

-----------------------------------------------------------------------------
(* Properties of overlays                                                  *)

\* a value merged with an overlay's block as the strategies are described:
\* the block itself under shallow and replace and over a value that is no
\* block; under deep the union of the keys, a key of both whose values are
\* blocks (of scalars) taking their union, any other key of both the later
\* value
OverlaidAsClaimed(v, b, o) ==
  IF o.MergeStrategy \in {"shallow", "replace"} \/ ~IsBlock(v) THEN b
  ELSE Blk([k \in DOMAIN v.m \cup DOMAIN b.m |->
              IF k \notin DOMAIN b.m THEN v.m[k]
              ELSE IF k \notin DOMAIN v.m THEN b.m[k]
              ELSE IF IsBlock(v.m[k]) /\ IsBlock(b.m[k])
              THEN Blk(UnionLaterWins(v.m[k].m, b.m[k].m))
              ELSE b.m[k]])

\* C11: each overlay node, applied after the merge, leaves the final
\* document with the same nodes in the same places except that the first
\* node with the overlay's key holds its value merged with the overlay's
\* block under the active strategy; when no node has that key, the final
\* document is what it was with one node more at its end, with the
\* overlay's key and block.
C11_OverlayApplied ==
  [][(pc = "overlaying" /\ iteration <= Len(overlayNodes)) =>
       LET ov     == overlayNodes[iteration]
           before == merged.Nodes
           after  == merged'.Nodes
       IN IF ov.Key \in KeysOf(before)
          THEN LET i == CHOOSE i \in 1..Len(before) :
                          /\ before[i].Key = ov.Key
                          /\ \A j \in 1..(i - 1) : before[j].Key # ov.Key
               IN /\ Len(after) = Len(before)
                  /\ \A j \in 1..Len(before) : j # i => after[j] = before[j]
                  /\ after[i].Key = ov.Key
                  /\ after[i].Value = OverlaidAsClaimed(before[i].Value, ov.Value, options)
          ELSE /\ Len(after) = Len(before) + 1
               /\ SubSeq(after, 1, Len(before)) = before
               /\ after[Len(after)].Key = ov.Key
               /\ after[Len(after)].Value = ov.Value]_allVars

\* an overlay merged into the second node of the final document and another
\* appended to it
C11_Witness ==
  /\ pc = "done"
  /\ options.MergeStrategy = "deep"
  /\ doc.Nodes = <<Node("b", "", S1), Node("a", "", ExBase),
                   Node("a", "overlay", ExOverlay), Node("c", "overlay", Bx3)>>
  /\ result.Nodes = <<Node("b", "", S1), Node("a", "", ExDeep), Node("c", "", Bx3)>>

-----------------------------------------------------------------------------
(* Properties of one engine over several calls                             *)

\* C12: when a top-level call on an engine has ended, the vars mapping
\* holds only paths that the document of that call declares, and the call
\* has ended as it ends on an engine that made no call before, with the
\* same document returned.
C12_VarsRebuiltPerCall ==
  (pc \in {"done", "error", "diverged"}) =>
    LET fresh == processPlain(doc, EmptyMap, options)
    IN /\ DOMAIN vars \subseteq DOMAIN Declared
       /\ (pc = "diverged") = (fresh.end = "diverged")
       /\ (pc = "error") = (fresh.end = "circular dependency: variables")
       /\ pc = "done" => result = fresh.result

-----------------------------------------------------------------------------
(* Properties of the parser                                                *)

\* the input has ended inside a block, a list, a table or a multiline text
\* that its closing line has not ended
EndsUnterminated ==
  pc = "parsing" /\ stack # <<>> /\ lineNum >= Len(lines)

\* C13: when the input ends before the closing line of a block, a list or
\* a multiline text, ParseDocument goes on to return an error with a line
\* number counted from 1, and no document.
C13_UnterminatedIsError ==
  [][EndsUnterminated =>
       (pc' = "error" /\ err'.line >= 1 /\ result' = NoDocument)]_allVars

UseNode(namespaces) ==
  Node(UseKey, DirectiveType, [t |-> "UseDirective", Namespaces |-> namespaces])

\* C14: a document that is one `!use` line with its list, the list written
\* on the line or one item a line between `[` and `]`, parses to the one
\* node _use!directive whose namespaces are the items in order.
C14_UseDirectiveList ==
  pc = "done" =>
    /\ lines = <<<<"!", "u", "s", "e", " ", "[", "a", ",", " ", "b", "]">>>>
         => result.Nodes = <<UseNode(<<<<"a">>, <<"b">>>>)>>
    /\ (Len(lines) = 3 /\ lines[1] = <<"!", "u", "s", "e", " ", "[">>
          /\ lines[2] \in {<<"b">>, <<"a", " ", "1">>} /\ lines[3] = <<"]">>)
         => result.Nodes = <<UseNode(<<lines[2]>>)>>

\* the text after the directive word
AfterWord(line, word) == TrimSpace(SubSeq(TrimSpace(line), Len(word) + 1, Len(line)))

\* a line that starts with !use and goes on with no list, or starts with
\* !lint and goes on with no {
MalformedDirective(line) ==
  \/ /\ HasPrefix(TrimSpace(line), UseWord)
     /\ ~HasPrefix(AfterWord(line, UseWord), <<"[">>)
  \/ /\ HasPrefix(TrimSpace(line), LintWord)
     /\ ~HasPrefix(AfterWord(line, LintWord), <<"{">>)

\* C15: when the next top-level line is a malformed directive, ParseDocument
\* ends with an error that carries the number of that line, counted from 1,
\* and returns no document, whatever was parsed before the line.
C15_MalformedDirectiveIsFatal ==
  [][(pc = "parsing" /\ stack = <<>> /\ lineNum < Len(lines)
        /\ MalformedDirective(lines[lineNum + 1]))
       => (pc' = "error" /\ err'.line = lineNum + 1 /\ err'.msg # ""
             /\ result' = NoDocument)]_allVars

\* the second line is a `!use` without a list: the node of the first line
\* is not returned
C15_Witness ==
  /\ pc = "error"
  /\ Len(lines) >= 2
  /\ lines[1] = <<"a", " ", "1">>
  /\ lines[2] = <<"!", "u", "s", "e", " ", "a">>
  /\ err.line = 2
  /\ Len(parsedNodes) = 1
  /\ result = NoDocument

\* the key token of a line that starts with it: the text before the first
\* white space
KeyToken(line) ==
  IF IndexAny(line, {" ", "\t"}) = 0 THEN line
  ELSE SubSeq(line, 1, IndexAny(line, {" ", "\t"}) - 1)

\* the text after the key token and the white space that follows it
ValueText(line) == TrimSpace(SubSeq(line, Len(KeyToken(line)) + 1, Len(line)))

BeforeBang(tok) ==
  IF Index(tok, <<"!">>) = 0 THEN tok ELSE SubSeq(tok, 1, Index(tok, <<"!">>) - 1)
AfterBang(tok) ==
  IF Index(tok, <<"!">>) = 0 THEN <<>>
  ELSE SubSeq(tok, Index(tok, <<"!">>) + 1, Len(tok))

\* line-oriented as the claim has it
LineOriented(line) ==
  /\ KeyToken(line) # <<>>
  /\ KeyToken(line)[Len(KeyToken(line))] = ":"
  /\ \A i \in 1..(Len(KeyToken(line)) - 2) :
       SubSeq(KeyToken(line), i, i + 2) # <<":", "/", "/">>

\* the key token without the colon of line-oriented mode
KeyWritten(line) ==
  IF LineOriented(line)
  THEN SubSeq(KeyToken(line), 1, Len(KeyToken(line)) - 1)
  ELSE KeyToken(line)

\* C16: a one-line document whose value has no double quote parses to one
\* node; when the key token ends with ":" and has no "://", the key is the
\* token without that colon (and without the annotation after "!") and the
\* value ends before a "#" comment; otherwise the key is the token as it is
\* written and the value the whole text after it.  The examples: `name:
\* John Doe`, `count!int: 42`, `website https://example.com`.
C16_LineOrientedDetection ==
  (pc = "done" /\ lines \in LineDocs
     /\ AfterBang(KeyWritten(lines[1])) # QuotedType
     /\ ~Contains(ValueText(lines[1]), Quote)) =>
    LET line == lines[1]
        v    == ValueText(line)
        cut  == IF Index(v, <<"#">>) = 0 THEN v
                ELSE TrimSpace(SubSeq(v, 1, Index(v, <<"#">>) - 1))
    IN /\ Len(result.Nodes) = 1
       /\ result.Nodes[1].Key = BeforeBang(KeyWritten(line))
       /\ result.Nodes[1].Type = AfterBang(KeyWritten(line))
       /\ result.Nodes[1].Value = Str(IF LineOriented(line) THEN cut ELSE v)
       /\ line = ExNameLine =>
            result.Nodes[1] = Node(<<"n", "a", "m", "e">>, <<>>, Str(<<"J", "o", "h", "n", " ", "D", "o", "e">>))
       /\ line = ExCountLine =>
            result.Nodes[1] = Node(<<"c", "o", "u", "n", "t">>, <<"i", "n", "t">>, Str(<<"4", "2">>))
       /\ line = ExWebsiteLine =>
            result.Nodes[1] = Node(<<"w", "e", "b", "s", "i", "t", "e">>, <<>>,
                                   Str(<<"h", "t", "t", "p", "s", ":", "/", "/", "e", "x", "a", "m", "p", "l", "e", ".", "c", "o", "m">>))

C16_Witness ==
  /\ pc = "done"
  /\ lines = <<<<"u", ":", "/", "/", "h", ":", " ", "a", " ", "#", " ", "c">>>>
  /\ result.Nodes = <<Node(<<"u", ":", "/", "/", "h", ":">>, <<>>, Str(<<"a", " ", "#", " ", "c">>))>>

\* the place of the first "#" of s that has an even number of double quotes
\* before it, 0 when there is none
UnquotedHash(s) ==
  LET quotesBefore(i) == Cardinality({j \in 1..(i - 1) : s[j] = "\""})
      open(i) == s[i] = "#" /\ quotesBefore(i) % 2 = 0
  IN IF \E i \in 1..Len(s) : open(i)
     THEN CHOOSE i \in 1..Len(s) : open(i) /\ \A j \in 1..(i - 1) : ~open(j)
     ELSE 0

\* C17: a one-line document in line-oriented mode (key token `k:`) parses to
\* the value that is the text up to the first "#" outside double quotes,
\* without white space around it and without one pair of double quotes
\* around it; `message: Hello World  # c` gives `Hello World`.
C17_CommentOutsideQuotes ==
  (pc = "done" /\ lines \in LineDocs
     /\ KeyToken(lines[1]) \in {<<"k", ":">>, KeyToken(ExMessageLine)}) =>
    LET v    == ValueText(lines[1])
        cut  == IF UnquotedHash(v) = 0 THEN v
                ELSE TrimSpace(SubSeq(v, 1, UnquotedHash(v) - 1))
        bare == IF Len(cut) >= 2 /\ cut[1] = "\"" /\ cut[Len(cut)] = "\""
                THEN SubSeq(cut, 2, Len(cut) - 1)
                ELSE cut
    IN /\ Len(result.Nodes) = 1
       /\ result.Nodes[1].Value = Str(bare)
       /\ lines[1] = ExMessageLine =>
            result.Nodes[1].Value = Str(<<"H", "e", "l", "l", "o", " ", "W", "o", "r", "l", "d">>)

\* C18: a one-line document whose annotation is `quoted` parses to a node
\* with the annotation `string` and a value of two characters at least
\* that begins and ends with a double quote; a value written "q" is stored
\* as "q", quotes included.
C18_QuotedOverride ==
  (pc = "done" /\ lines \in LineDocs
     /\ AfterBang(KeyWritten(lines[1])) = QuotedType) =>
    LET val == result.Nodes[1].Value
    IN /\ Len(result.Nodes) = 1
       /\ result.Nodes[1].Type = StringType
       /\ IsString(val)
       /\ Len(val.s) >= 2
       /\ val.s[1] = "\""
       /\ val.s[Len(val.s)] = "\""
       /\ ValueText(lines[1]) = <<"\"", "q", "\"">> => val.s = <<"\"", "q", "\"">>

\* C19: a document whose first line is `t!table {`, followed by the
\* columns line, the rows block and the closing line, parses to a first
\* node holding a table: its columns are the column list and its rows (when
\* written) one list per row.
C19_TableDispatch ==
  (pc = "done" /\ lines \in TableDocs /\ lines[1] = <<"t", "!", "t", "a", "b", "l", "e", " ", "{">>) =>
    LET val == result.Nodes[1].Value
        c(x) == Str(<<x>>)
    IN /\ result.Nodes[1].Key = <<"t">>
       /\ val.t = "map"
       /\ Columns \in DOMAIN val.m
       /\ val.m[Columns] = AnySl(<<c("a"), c("b")>>)
       /\ (Len(lines) >= 7) =>
            /\ Rows \in DOMAIN val.m
            /\ val.m[Rows] = AnySl(<<AnySl(<<c("1"), c("2")>>),
                                     AnySl(<<c("3"), c("4")>>)>>)

\* how many characters the annotation of a multiline text says to cut: none
\* (-1 here) when it is no non-negative integer
DedentOf(ty) ==
  CASE ty = <<"0">> -> 0
    [] ty = <<"1">> -> 1
    [] ty = <<"2">> -> 2
    [] ty = <<"+", "1">> -> 1
    [] OTHER -> 0 - 1

\* C20: a document that is one multiline text parses, without failing, to
\* the content lines joined by line feeds, each line of n characters or
\* more without its first n characters when the annotation is the
\* non-negative integer n, and every line as it is written otherwise.
C20_MultilineDedent ==
  (pc \in {"done", "error", "panic"} /\ lines \in MultilineDocs) =>
    LET ty      == AfterBang(KeyToken(lines[1]))
        n       == DedentOf(ty)
        last    == IF lines[Len(lines)] = Fence THEN Len(lines) - 1 ELSE Len(lines)
        content == SubSeq(lines, 2, last)
        cutLine(l) == IF n >= 0 /\ Len(l) >= n THEN SubSeq(l, n + 1, Len(l)) ELSE l
    IN /\ pc = "done"
       /\ Len(result.Nodes) = 1
       /\ result.Nodes[1].Value =
            Str(JoinWith([i \in 1..Len(content) |-> cutLine(content[i])], NL))

\* C21: a block of key/value lines parses to a Block in which each key
\* written appears once, with the value of its last line; the same lines
\* written at top level give one node a line, in the order of the lines.
C21_LastWriteWins ==
  pc = "done" =>
    \A es \in DupSeqs :
      /\ lines = BlockDoc(es) =>
           LET val == result.Nodes[1].Value
               last(k) == CHOOSE i \in 1..Len(es) :
                            es[i].k = k /\ \A j \in (i + 1)..Len(es) : es[j].k # k
           IN /\ Len(result.Nodes) = 1
              /\ IsBlock(val)
              /\ DOMAIN val.m = {es[i].k : i \in 1..Len(es)}
              /\ \A k \in DOMAIN val.m : val.m[k] = Str(es[last(k)].v)
      /\ (lines = EntryLines(es) /\ es # <<>>) =>
           result.Nodes = [i \in 1..Len(es) |-> Node(es[i].k, <<>>, Str(es[i].v))]

C21_Witness ==
  /\ pc = "done"
  /\ lines = BlockDoc(<<[k |-> <<"a">>, v |-> <<"1">>], [k |-> <<"b">>, v |-> <<"3">>],
                        [k |-> <<"a">>, v |-> <<"2">>]>>)
  /\ result.Nodes[1].Value =
       Blk([k \in {<<"a">>, <<"b">>} |-> IF k = <<"a">> THEN Str(<<"2">>) ELSE Str(<<"3">>)])


-----------------------------------------------------------------------------
(* Properties of substitution                                              *)

\* the scalars of a value: itself, or those of the values of its keys and
\* of its items, however the list is written
RECURSIVE ScalarsOf(_)
ScalarsOf(v) ==
  CASE v.t = "string" -> {v.s}
    [] v.t = "Block" -> UNION {ScalarsOf(v.m[k]) : k \in DOMAIN v.m}
    [] v.t \in {"List", "[]any"} ->
         UNION {ScalarsOf(v.items[i]) : i \in 1..Len(v.items)}
    [] OTHER -> {}

\* C22: in the document a call returns, no scalar of any node, at top
\* level, under a block or in a list written multiline or inline, holds a
\* reference to a variable the document declares.
C22_NoDefinedReferenceLeft ==
  pc = "done" =>
    \A i \in 1..Len(result.Nodes) :
      \A s \in ScalarsOf(result.Nodes[i].Value) :
        RefsIn(s) \cap DOMAIN Declared = {}

\* a string with every reference replaced, left to right, by the printed
\* value of its variable in vs; the text put in is not read again
RECURSIVE Substituted(_, _)
Substituted(s, vs) ==
  LET i == Index(s, VarsPrefix)
      e == refEnd(s, i + 6)
      p == SubSeq(s, i + 6, e - 1)
  IN IF i = 0 THEN s
     ELSE SubSeq(s, 1, i - 1)
          \o (IF p \in DOMAIN vs THEN Sprint(vs[p]) ELSE SubSeq(s, i, e - 1))
          \o Substituted(SubSeq(s, e, Len(s)), vs)

\* the variables hold scalars without references and multiline lists
PlainVars ==
  /\ Plain(Declared)
  /\ \A p \in DOMAIN Declared : Declared[p].t \in {"string", "List"}

\* C23: a scalar whose references are all to declared variables (and that
\* holds no marker text) is resolved to the value of the variable, a list
\* staying a list, when it is one reference and nothing else, and otherwise
\* to the string with each reference replaced by the printed value.
C23_SubstitutionOfDefined ==
  (Ended /\ PlainVars /\ IsString(doc.Nodes[2].Value)
     /\ RefsIn(doc.Nodes[2].Value.s) # {}
     /\ RefsIn(doc.Nodes[2].Value.s) \subseteq DOMAIN Declared
     /\ ~Contains(doc.Nodes[2].Value.s, MarkOpen)
     /\ ~Contains(doc.Nodes[2].Value.s, MarkClose)) =>
    LET s == doc.Nodes[2].Value.s
    IN /\ pc = "done"
       /\ result.Nodes[2].Value =
            IF \E p \in DOMAIN Declared : s = Ref(p)
            THEN Declared[CHOOSE p \in DOMAIN Declared : s = Ref(p)]
            ELSE Str(Substituted(s, Declared))

\* C29: when a scalar with a reference has been resolved, the text written
\* before its first reference opens the resolved scalar and the text
\* written after its last reference closes it, "<<<" and ">>>" included.
C29_OnlyReferencesChange ==
  (pc = "done" /\ IsString(doc.Nodes[2].Value)
     /\ RefsIn(doc.Nodes[2].Value.s) # {}) =>
    LET s      == doc.Nodes[2].Value.s
        r      == result.Nodes[2].Value
        starts == {i \in 1..Len(s) : MatchAt(s, VarsPrefix, i)}
        last   == CHOOSE i \in starts : \A j \in starts : j <= i
        pre    == SubSeq(s, 1, Index(s, VarsPrefix) - 1)
        post   == SubSeq(s, refEnd(s, last + 6), Len(s))
    IN /\ (pre \o post # <<>>) => IsString(r)
       /\ IsString(r) => (HasPrefix(r.s, pre) /\ HasSuffix(r.s, post))

-----------------------------------------------------------------------------
(* Properties of the loads of base and included files                      *)

\* the files whose load is under way, ProcessTemplate's first
CallChain == {stack[i].file : i \in 1..Len(stack)}

\* C24: the visited set holds exactly the files whose load is under way;
\* it is empty again when the top-level call has returned, with a document
\* or with an error; and over files that name each other without a cycle,
\* one of them reached along two branches included, no load ends with the
\* circular-dependency error.
C24_VisitedIsCallChain ==
  /\ visited = CallChain
  /\ pc \in {"idle", "done", "error"} => visited = {}
  /\ ret # "circular dependency"

\* R is loaded for P a second time: it was loaded before as the base of
\* P's base Q
C24_Witness ==
  /\ pc = "running"
  /\ files[FileP].base = FileQ
  /\ files[FileQ].base = FileR
  /\ Len(stack) = 2
  /\ stack[1].file = FileP
  /\ stack[1].baseDoc # NoDocument
  /\ stack[2].file = FileR
  /\ visited = {FileP, FileR}

NoScalar == <<>>

\* the value of the scalar k in the processed document of f, by the merge
\* order claimed: the file's own k when it has one, else that of the last
\* included file whose document has one, else that of the base
RECURSIVE ScalarByOrder(_, _)
ScalarByOrder(f, n) ==
  IF n = 0 \/ f \notin DOMAIN files THEN NoScalar
  ELSE IF files[f].own THEN f
  ELSE LET srcs == (IF files[f].base # <<>> THEN <<files[f].base>> ELSE <<>>)
                   \o files[f].includes
           has  == {i \in 1..Len(srcs) : ScalarByOrder(srcs[i], n - 1) # NoScalar}
       IN IF has = {} THEN NoScalar
          ELSE ScalarByOrder(srcs[CHOOSE i \in has : \A j \in has : j <= i], n - 1)

MergeNodeNext ==
  /\ pc = "running"
  /\ stack # <<>>
  /\ Top.ni <= Len(Top.nodes)
  /\ Top.nodes[Top.ni].Type = "merge"

\* C30: a `!merge` directive writes its strategy into the engine's options,
\* and no other step changes the strategies: not the return of the file
\* that declared the directive, not the end of the top-level call, not the
\* start of the next one.  The base directory is that of the files while a
\* load is under way and the previous one, ".", whenever none is.
C30_MergeDirectiveNotScoped ==
  [][/\ MergeNodeNext =>
          options'.MergeStrategy = Top.nodes[Top.ni].Value.m["strategy"].s[1]
     /\ ~MergeNodeNext =>
          /\ options'.MergeStrategy = options.MergeStrategy
          /\ options'.ListStrategy = options.ListStrategy
     /\ options'.BaseDir = IF stack' = <<>> THEN "." ELSE FilesDir]_allVars

\* the second call, on P with its base R, neither with a directive, merges
\* under the strategy that Q set during the first call: the block s of the
\* base is replaced, not merged
C30_Witness ==
  /\ pc = "done"
  /\ calls = 2
  /\ doc = FileP
  /\ files[FileP].base = FileR
  /\ files[FileP].includes = <<>>
  /\ files[FileP].own
  /\ files[FileR].own
  /\ options.MergeStrategy = "replace"
  /\ options.BaseDir = "."
  /\ \E i \in 1..Len(result.Nodes) :
       /\ result.Nodes[i].Key = "s"
       /\ result.Nodes[i].Value = Blk([x \in {"P"} |-> S5])

-----------------------------------------------------------------------------
(* Properties of inline lists                                              *)

\* the pieces of s between its commas, in order: one more than it has commas
PiecesOf(s) ==
  LET commas == {i \in 1..Len(s) : s[i] = ","}
      nth(j) == CHOOSE i \in commas : Cardinality({c \in commas : c < i}) = j - 1
      from(j) == IF j = 1 THEN 1 ELSE nth(j - 1) + 1
      to(j)   == IF j = Cardinality(commas) + 1 THEN Len(s) ELSE nth(j) - 1
  IN [j \in 1..(Cardinality(commas) + 1) |-> SubSeq(s, from(j), to(j))]

-----------------------------------------------------------------------------
(* Properties of the Scanner                                               *)

\* C26: the k-th call of NextLine that returns a line returns the number k
\* and the k-th line of the reader, blank and comment lines counted; after
\* a call that returned no line, every call returns no line and the same
\* line number.
C26_LineNumbers ==
  [][/\ result'.ok =>
          /\ result'.num = iteration'
          /\ result'.line = lines[iteration']
          /\ iteration' = iteration + 1
     /\ (calls > 0 /\ ~result.ok) =>
          /\ ~result'.ok
          /\ result'.num = result.num
          /\ lineNum' = lineNum]_allVars

\* the reader of a blank line, a comment and a key/value line, called five
\* times: three lines, then twice none, the number staying at 3
C26_Witness ==
  /\ calls = 5
  /\ lines = <<<<>>, <<"#", " ", "c">>, <<"a", " ", "1">>>>
  /\ iteration = 3
  /\ result = [num |-> 3, line |-> <<>>, ok |-> FALSE]

-----------------------------------------------------------------------------
(* Properties of the order of the patches                                  *)

\* the document before its patches: patches neither add nor remove a
\* top-level node, and a document is made of the nodes of PatchNodes
Unpatched ==
  SelectSeq(PatchNodes,
            LAMBDA n : \E i \in 1..Len(result.Nodes) : result.Nodes[i].Key = n.Key)

\* the orders a sequence of patches can be applied in
OrdersOf(ps) ==
  {[i \in DOMAIN ps |-> ps[q[i]]] :
     q \in {r \in [DOMAIN ps -> DOMAIN ps] :
              \A i, j \in DOMAIN ps : i # j => r[i] # r[j]}}

\* C28: the document applyPatches returns for the assignments of one
\* `!patch` block is the document it returns for the same assignments in
\* every other order.
C28_PatchOrderIndependent ==
  pc = "done" =>
    \A ps \in OrdersOf(patches) : applyPatches(Unpatched, ps) = result.Nodes

\* applyPatches, as a function, returns what the steps of the call return
C28_SameOrderSameResult ==
  pc = "done" => applyPatches(Unpatched, patches) = result.Nodes
=============================================================================
